---------------------------- MODULE Spec2Model ----------------------------
(***************************************************************************)
(* Model of the OOCR recognition pipeline: the MyScript cloud adapter      *)
(* (src/myScriptService.ts) and the recognition flow of the handwriting    *)
(* view (src/handwritingView.ts, HandwritingView.runOcr).                  *)
(*                                                                         *)
(* Text is a sequence of characters.  A JavaScript value is a record       *)
(* [t, s, n, a]: t is the type tag, s the characters of a string, n a      *)
(* number, a the elements of an array.                                     *)
(***************************************************************************)
EXTENDS Integers, Sequences, FiniteSets, TLC

VARIABLES settings, options, capturedStrokes, cursor, calls, svcArgs, svcRes,
          serIn, serOut, hmacOptions, env, keysUsed, debug, view, pointer,
          heap, raster, surface, ocr, failure, config, overlapping

\* the serializer's argument and results, the signing adapter's credentials,
\* the diagnostic files, the capture surface
serVars == <<serIn, serOut>>
credVars == <<hmacOptions, env, keysUsed>>
capVars == <<view, pointer>>

\* the objects of the view as the recognition call sees them
extVars == <<heap, raster, surface, ocr, failure, config, overlapping>>

vars == <<settings, options, capturedStrokes, cursor, calls, svcArgs, svcRes,
          serVars, credVars, debug, capVars, extVars>>

---------------------------------------------------------------------------
(* Bounds of the model.                                                    *)

\* strokes held by the view when a recognition starts
MaxStrokes == 2
\* elements of a textLines / words array in a backend reply
MaxItems == 2
\* recognition calls that may be in flight together
MaxCalls == 1

---------------------------------------------------------------------------
(* JavaScript values.                                                      *)

Whitespace == {" ", "\n"}

Undef == [t |-> "undef", s |-> <<>>, n |-> 0, a |-> <<>>]
Null == [t |-> "null", s |-> <<>>, n |-> 0, a |-> <<>>]
Str(s) == [t |-> "str", s |-> s, n |-> 0, a |-> <<>>]
Num(n) == [t |-> "num", s |-> <<>>, n |-> n, a |-> <<>>]
Arr(a) == [t |-> "arr", s |-> <<>>, n |-> 0, a |-> a]

\* JavaScript truthiness, as used by `if (v)` and `v || ''`
Truthy(v) ==
  CASE v.t = "undef" -> FALSE
    [] v.t = "null" -> FALSE
    [] v.t = "str" -> v.s # <<>>
    [] v.t = "num" -> v.n # 0
    [] OTHER -> TRUE

\* an element of a textLines / words array: an object with a label, or null
ItemObj(label) == [t |-> "obj", label |-> label]
ItemNull == [t |-> "null", label |-> Undef]

\* String.prototype.trim() yields a non-empty string
NonBlank(s) == \E i \in 1..Len(s) : s[i] \notin Whitespace

---------------------------------------------------------------------------
(* Outcomes of a call: a resolved value or a thrown error.                 *)

NoError == [msg |-> "none", from |-> "none"]
Error(msg, from) == [msg |-> msg, from |-> from]

Resolved(v) == [k |-> "ok", v |-> v, e |-> NoError, sent |-> FALSE, notice |-> FALSE]
Thrown(e) == [k |-> "throw", v |-> Undef, e |-> e, sent |-> FALSE, notice |-> FALSE]
Pending == [k |-> "pending", v |-> Undef, e |-> NoError, sent |-> FALSE, notice |-> FALSE]

---------------------------------------------------------------------------
(* MyScriptService: credentials.                                           *)

NullOptions == [set |-> FALSE, applicationKey |-> "", language |-> ""]

configure(opts) == [set |-> TRUE, applicationKey |-> opts.applicationKey,
                    language |-> opts.language]

\* isConfigured looking only at whether configure was called: C16 must
\* tell it apart
isConfigured_AnyOptions(opts) == opts.set

isConfigured(opts) == opts.set /\ opts.applicationKey # ""

---------------------------------------------------------------------------
(* MyScriptService.recognizeStrokes: response normalization.               *)

RECURSIVE Join(_, _)
\* Array.prototype.join on an array of strings
Join(texts, sep) ==
  IF Len(texts) = 0 THEN <<>>
  ELSE IF Len(texts) = 1 THEN texts[1]
  ELSE texts[1] \o sep \o Join(Tail(texts), sep)

\* `item.label || ''`
LabelOrEmpty(item) == IF Truthy(item.label) THEN item.label.s ELSE <<>>

\* MapLabelsJoin joining the labels last to first: C10 must tell it apart
MapLabelsJoin_Reversed(v, sep, from) ==
  IF v.t # "arr" THEN Thrown(Error("map is not a function", from))
  ELSE IF \E i \in 1..Len(v.a) : v.a[i].t = "null"
       THEN Thrown(Error("cannot read properties of null", from))
  ELSE Resolved(Str(Join([i \in 1..Len(v.a) |-> LabelOrEmpty(v.a[Len(v.a) + 1 - i])], sep)))

\* `v.map(item => item.label || '').join(sep)`
MapLabelsJoin(v, sep, from) ==
  IF v.t # "arr" THEN Thrown(Error("map is not a function", from))
  ELSE IF \E i \in 1..Len(v.a) : v.a[i].t = "null"
       THEN Thrown(Error("cannot read properties of null", from))
  ELSE Resolved(Str(Join([i \in 1..Len(v.a) |-> LabelOrEmpty(v.a[i])], sep)))

\* `obj?.label` for the reply's text member
TextLabel(text) == IF text.t = "obj" THEN text.label ELSE Undef

\* `obj?.textLines` for the reply's result member
ResultTextLines(result) == IF result.t = "obj" THEN result.textLines ELSE Undef

\* ParseJiixReply asking for text.label before the top-level label: C8 must tell
\* it apart
ParseJiixReply_TextFirst(result) ==
  IF result.t = "obj"
  THEN IF Truthy(TextLabel(result.text)) THEN Resolved(TextLabel(result.text))
       ELSE IF Truthy(result.label) THEN Resolved(result.label)
       ELSE IF Truthy(ResultTextLines(result.result))
            THEN MapLabelsJoin(ResultTextLines(result.result), <<"\n">>, "stroke")
       ELSE IF Truthy(result.words) /\ result.words.t = "arr" /\ Len(result.words.a) > 0
            THEN MapLabelsJoin(result.words, <<" ">>, "stroke")
       ELSE Resolved(Str(<<>>))
  ELSE Resolved(Str(<<>>))

\* the extractor chain applied to response.json
ParseJiixReply(result) ==
  IF result.t = "obj"
  THEN IF Truthy(result.label) THEN Resolved(result.label)
       ELSE IF Truthy(TextLabel(result.text)) THEN Resolved(TextLabel(result.text))
       ELSE IF Truthy(ResultTextLines(result.result))
            THEN MapLabelsJoin(ResultTextLines(result.result), <<"\n">>, "stroke")
       ELSE IF Truthy(result.words) /\ result.words.t = "arr" /\ Len(result.words.a) > 0
            THEN MapLabelsJoin(result.words, <<" ">>, "stroke")
       ELSE Resolved(Str(<<>>))
  ELSE Resolved(Str(<<>>))

\* the part of recognizeStrokes after requestUrl settles
StrokeResponse(net) ==
  IF net.k = "threw" THEN Thrown(Error("MyScript request failed", "stroke"))
  ELSE IF net.status # 200 THEN Thrown(Error("MyScript API error", "stroke"))
  ELSE ParseJiixReply(net.json)

\* StrokePrecheck without the zero-strokes return: C4 must tell it apart
StrokePrecheck_NoEmptyReturn(opts, strokes) ==
  IF ~isConfigured(opts) THEN "throw" ELSE "send"

\* what recognizeStrokes does before any request: "throw", "empty" or "send"
StrokePrecheck(opts, strokes) ==
  IF ~isConfigured(opts) THEN "throw"
  ELSE IF Len(strokes) = 0 THEN "empty"
  ELSE "send"

\* recognizeStrokes as a whole; net is what the network does if asked
recognizeStrokes(opts, strokes, net) ==
  LET pre == StrokePrecheck(opts, strokes) IN
  IF pre = "throw" THEN Thrown(Error("MyScript not configured (service)", "stroke"))
  ELSE IF pre = "empty" THEN Resolved(Str(<<>>))
  ELSE LET r == StrokeResponse(net) IN
       [r EXCEPT !.sent = TRUE, !.notice = (r.k = "throw")]

---------------------------------------------------------------------------
(* MyScriptService.recognizeBitmap.                                        *)

BitmapResponse(net) ==
  IF net.k = "threw" THEN Thrown(Error("request error", "bitmap"))
  ELSE IF net.status # 200 THEN Thrown(Error("MyScript API error", "bitmap"))
  ELSE IF net.json.t = "obj" /\ Truthy(TextLabel(net.json.text))
       THEN Resolved(TextLabel(net.json.text))
  ELSE Resolved(Str(<<>>))

recognizeBitmap(opts, net) ==
  IF ~isConfigured(opts)
  THEN Thrown(Error("MyScript not configured (service)", "bitmap"))
  ELSE LET r == BitmapResponse(net) IN
       [r EXCEPT !.sent = TRUE, !.notice = (r.k = "throw")]

---------------------------------------------------------------------------
(* Backend replies.                                                        *)

\* the reply body: an object with the four members the parser looks at
Reply(label, text, result, words) ==
  [t |-> "obj", label |-> label, text |-> text, result |-> result, words |-> words]

TextObj(label) == [t |-> "obj", label |-> label]
NoText == [t |-> "undef", label |-> Undef]
ResultObj(textLines) == [t |-> "obj", textLines |-> textLines]
NoResult == [t |-> "undef", textLines |-> Undef]

\* a body such as {foo: 1}
UnknownShape == Reply(Undef, NoText, NoResult, Undef)
\* a body that is not an object: null, a number
NonObject(t) == [UnknownShape EXCEPT !.t = t]

NetThrew == [k |-> "threw", status |-> 0, json |-> UnknownShape]
NetStatus(status, json) == [k |-> "resp", status |-> status, json |-> json]

Items == {ItemObj(Str(<<"a">>)), ItemObj(Str(<<"b">>)), ItemObj(Undef), ItemNull}

RECURSIVE SeqsUpTo(_, _)
SeqsUpTo(S, n) ==
  IF n = 0 THEN {<<>>}
  ELSE LET shorter == SeqsUpTo(S, n - 1) IN
       shorter \cup {Append(q, x) : q \in {r \in shorter : Len(r) = n - 1}, x \in S}

ArrayValues == {Arr(a) : a \in SeqsUpTo(Items, MaxItems)}
LabelValues == {Undef, Str(<<>>), Str(<<"a">>), Str(<<" ">>), Num(5)}
TextValues == {NoText} \cup {TextObj(l) : l \in {Undef, Str(<<>>), Str(<<"c">>)}}
ListValues == {Undef, Num(5), Str(<<"a">>)} \cup ArrayValues
ResultValues == {NoResult} \cup {ResultObj(v) : v \in ListValues}

AllReplies ==
  {Reply(l, t, r, w) : l \in LabelValues, t \in TextValues,
                       r \in ResultValues, w \in ListValues}
    \cup {NonObject("null"), NonObject("num")}

AllNets == {NetThrew, NetStatus(204, UnknownShape)}
             \cup {NetStatus(200, j) : j \in AllReplies}

\* the replies drawn while a recognition of the view is in flight
StrokeNets ==
  {NetThrew, NetStatus(204, UnknownShape), NetStatus(200, UnknownShape),
   NetStatus(200, Reply(Undef, TextObj(Str(<<"a">>)), NoResult, Undef)),
   NetStatus(200, Reply(Str(<<" ">>), NoText, NoResult, Undef)),
   NetStatus(200, Reply(Num(5), NoText, NoResult, Undef)),
   NetStatus(200, Reply(Undef, NoText, ResultObj(Num(5)), Undef))}

BitmapNets ==
  {NetThrew, NetStatus(204, UnknownShape), NetStatus(200, UnknownShape),
   NetStatus(200, Reply(Undef, TextObj(Str(<<"b">>)), NoResult, Undef)),
   NetStatus(200, Reply(Undef, TextObj(Str(<<" ">>)), NoResult, Undef)),
   NetStatus(200, Reply(Undef, TextObj(Num(5)), NoResult, Undef))}

SomeNets == StrokeNets \cup BitmapNets

\* what the local OCR adapter resolves to
LocalResults ==
  {Resolved(Str(<<"c">>)), Resolved(Str(<<"c", "\n">>)), Resolved(Str(<<>>)),
   Resolved(Str(<<"\n">>)), Thrown(Error("OCR failed", "local"))}

---------------------------------------------------------------------------
(* Strokes.                                                                *)

\* pressure recorded when the device reports none, in tenths
DefaultPressure == 5

SampleStroke(i) ==
  [points |-> <<[x |-> i, y |-> i, t |-> 0, p |-> Num(DefaultPressure)]>>]
SampleStrokes(n) == [i \in 1..n |-> SampleStroke(i)]
StrokeSets == {SampleStrokes(n) : n \in 0..MaxStrokes}

---------------------------------------------------------------------------
(* Settings and plugin load.                                               *)

DEFAULT_SETTINGS ==
  [ocrEngine |-> "tesseract", tesseractLanguage |-> "eng",
   tesseractHandwritingMode |-> TRUE, myScriptApplicationKey |-> "",
   myScriptHmacKey |-> "", myScriptLanguage |-> "en_US", captureStrokes |-> TRUE, fallbackToBitmap |-> TRUE]

\* what loadData may hold: any saved settings
SettingsValues ==
  [ocrEngine : {"tesseract", "myscript"}, tesseractLanguage : {"eng", "fra"},
   tesseractHandwritingMode : BOOLEAN, myScriptApplicationKey : {"", "key"},
   myScriptHmacKey : {""}, myScriptLanguage : {"en_US"}, captureStrokes : BOOLEAN, fallbackToBitmap : BOOLEAN]

updateMyScriptConfig(opts, s) ==
  IF s.myScriptApplicationKey # ""
  THEN configure([applicationKey |-> s.myScriptApplicationKey,
                  language |-> s.myScriptLanguage])
  ELSE opts

---------------------------------------------------------------------------
(* HandwritingView.runOcr.                                                 *)

CallIds == 1..MaxCalls

NoCall ==
  [pc |-> "idle", originalCursor |-> "", strokes |-> <<>>, text |-> Str(<<>>),
   reqs |-> <<>>, rasters |-> 0, strokeRes |-> Pending, bitmapRes |-> Pending,
   localRes |-> Pending, clip |-> "none", notices |-> <<>>, outcome |-> "none",
   ret |-> <<>>, err |-> NoError]

Request(to, n, retry, handwriting, language) ==
  [to |-> to, n |-> n, retry |-> retry, handwriting |-> handwriting,
   language |-> language]

NoticeOf(text, e) == [text |-> text, e |-> e]

\* Route sending an empty StrokeSet down the stroke path: C5 must tell it apart
Route_StrokesWhenEmpty(s, strokes, configured) ==
  IF s.ocrEngine = "myscript" /\ s.captureStrokes
  THEN IF Len(strokes) >= 0 /\ configured THEN "strokes"
       ELSE IF configured THEN "bitmap"
       ELSE "configError"
  ELSE IF s.ocrEngine = "myscript" /\ configured THEN "bitmap"
  ELSE "local"

\* Route choosing the stroke path without looking at the engine: C6 must tell it
\* apart
Route_IgnoresEngine(s, strokes, configured) ==
  IF s.captureStrokes
  THEN IF Len(strokes) > 0 /\ configured THEN "strokes"
       ELSE IF configured THEN "bitmap"
       ELSE "configError"
  ELSE IF s.ocrEngine = "myscript" /\ configured THEN "bitmap"
  ELSE "local"

\* the engine branch of runOcr
Route(s, strokes, configured) ==
  IF s.ocrEngine = "myscript" /\ s.captureStrokes
  THEN IF Len(strokes) > 0 /\ configured THEN "strokes"
       ELSE IF configured THEN "bitmap"
       ELSE "configError"
  ELSE IF s.ocrEngine = "myscript" /\ configured THEN "bitmap"
  ELSE "local"

\* a catch block that shows nothing: C31 must tell it apart
Fail_Silent(call, e) ==
  [call EXCEPT !.pc = "done", !.outcome = "failed", !.ret = <<>>, !.err = e]

\* the catch and finally blocks of runOcr
Fail(call, e) ==
  [call EXCEPT !.pc = "done", !.outcome = "failed", !.ret = <<>>, !.err = e,
               !.notices = Append(@, NoticeOf("Recognition failed", e))]

\* Finish testing `text` instead of `text.trim()`: C2 must tell it apart
Finish_NoTrim(call, text) ==
  IF text.t # "str"
  THEN Fail([call EXCEPT !.text = text], Error("text.trim is not a function", "view"))
  ELSE IF text.s # <<>>
  THEN [call EXCEPT !.pc = "awaitClipboard", !.text = text]
  ELSE [call EXCEPT !.pc = "done", !.text = text, !.outcome = "notext", !.ret = <<>>,
                    !.notices = Append(@, NoticeOf("No text detected.", NoError))]

\* `if (text.trim()) ... else ...` up to the clipboard write
Finish(call, text) ==
  IF text.t # "str"
  THEN Fail([call EXCEPT !.text = text], Error("text.trim is not a function", "view"))
  ELSE IF NonBlank(text.s)
  THEN [call EXCEPT !.pc = "awaitClipboard", !.text = text]
  ELSE [call EXCEPT !.pc = "done", !.text = text, !.outcome = "notext", !.ret = <<>>,
                    !.notices = Append(@, NoticeOf("No text detected.", NoError))]

\* getPaddedImage followed by the call of recognizeBitmap, up to its request
SendBitmap(call, opts, retry) ==
  LET rastered == [call EXCEPT !.rasters = @ + 1] IN
  IF ~isConfigured(opts)
  THEN Fail([rastered EXCEPT !.bitmapRes = recognizeBitmap(opts, NetThrew)],
            recognizeBitmap(opts, NetThrew).e)
  ELSE [rastered EXCEPT !.pc = "awaitBitmap",
                        !.reqs = Append(@, Request("bitmap", 0, retry, FALSE, ""))]

\* StrokeFailed retrying without asking the setting: C7 must tell it apart
StrokeFailed_AlwaysRetry(call, s, opts) == SendBitmap(call, opts, TRUE)

\* the catch block around recognizeStrokes
StrokeFailed(call, s, opts) ==
  IF s.fallbackToBitmap THEN SendBitmap(call, opts, TRUE)
  ELSE Finish(call, call.text)

\* the cursor after a step of a call: restored by `finally`
CursorAfter(call, cur) == IF call.pc = "done" THEN call.originalCursor ELSE cur

Commit(c, call) ==
  /\ calls' = [calls EXCEPT ![c] = call]
  /\ cursor' = CursorAfter(call, cursor)
  /\ UNCHANGED <<settings, options, capturedStrokes, svcArgs, svcRes,
               serVars, credVars, debug, capVars, extVars>>

\* runOcr from its entry to its first suspension
runOcrEntry(call, s, opts, strokes, cur) ==
  LET begun == [call EXCEPT !.originalCursor = cur,
                  !.notices = Append(@, NoticeOf("Processing handwriting...", NoError))]
      withStrokes == [begun EXCEPT !.strokes = strokes]
      route == Route(s, strokes, isConfigured(opts))
  IN CASE route = "strokes" ->
            IF StrokePrecheck(opts, strokes) = "send"
            THEN [withStrokes EXCEPT !.pc = "awaitStrokes",
                    !.reqs = Append(@, Request("strokes", Len(strokes), FALSE, FALSE, ""))]
            ELSE LET r == recognizeStrokes(opts, strokes, NetThrew)
                     got == [withStrokes EXCEPT !.strokeRes = r]
                 IN IF r.k = "ok" THEN Finish(got, r.v) ELSE StrokeFailed(got, s, opts)
       [] route = "bitmap" ->
            SendBitmap(IF s.captureStrokes THEN withStrokes ELSE begun, opts, FALSE)
       [] route = "configError" ->
            Fail(withStrokes, Error("MyScript not configured (view)", "view"))
       [] OTHER ->
            [begun EXCEPT !.pc = "awaitLocal", !.rasters = @ + 1,
               !.reqs = Append(@, Request("local", 0, FALSE, s.tesseractHandwritingMode,
                                          s.tesseractLanguage))]

RunOcrStart(c) ==
  /\ calls[c].pc = "idle"
  /\ LET next == runOcrEntry(calls[c], settings, options, capturedStrokes, cursor)
     IN /\ calls' = [calls EXCEPT ![c] = next]
        /\ cursor' = CursorAfter(next, "wait")
  /\ UNCHANGED <<settings, options, capturedStrokes, svcArgs, svcRes,
               serVars, credVars, debug, capVars, extVars>>

\* recognizeStrokes settles: its result, or the catch block and the fallback
onStrokesSettled(call, s, opts, net) ==
  LET r == recognizeStrokes(opts, call.strokes, net)
      got == [call EXCEPT !.strokeRes = r,
                !.notices = IF r.notice
                            THEN Append(@, NoticeOf("MyScript recognition failed", r.e))
                            ELSE @]
  IN IF r.k = "ok" THEN Finish(got, r.v) ELSE StrokeFailed(got, s, opts)

StrokeReply(c) ==
  /\ calls[c].pc = "awaitStrokes"
  /\ \E net \in StrokeNets :
       Commit(c, onStrokesSettled(calls[c], settings, options, net))

\* recognizeBitmap settles
onBitmapSettled(call, opts, net) ==
  LET r == recognizeBitmap(opts, net)
      got == [call EXCEPT !.bitmapRes = r,
                !.notices = IF r.notice
                            THEN Append(@, NoticeOf("MyScript recognition failed", r.e))
                            ELSE @]
  IN IF r.k = "ok" THEN Finish(got, r.v) ELSE Fail(got, r.e)

BitmapReply(c) ==
  /\ calls[c].pc = "awaitBitmap"
  /\ \E net \in BitmapNets :
       Commit(c, onBitmapSettled(calls[c], options, net))

\* ocrService.recognize settles
onLocalSettled(call, r) ==
  LET got == [call EXCEPT !.localRes = r]
  IN IF r.k = "ok" THEN Finish(got, r.v) ELSE Fail(got, r.e)

LocalReply(c) ==
  /\ calls[c].pc = "awaitLocal"
  /\ \E r \in LocalResults : Commit(c, onLocalSettled(calls[c], r))

\* navigator.clipboard.writeText settles
onClipboardSettled(call, ok) ==
  IF ok
  THEN [call EXCEPT !.pc = "done", !.clip = "ok", !.outcome = "copied",
                    !.ret = call.text.s,
                    !.notices = Append(@, NoticeOf("Copied!", NoError))]
  ELSE Fail([call EXCEPT !.clip = "fail"], Error("clipboard write failed", "clipboard"))

ClipboardReply(c) ==
  /\ calls[c].pc = "awaitClipboard"
  /\ \E ok \in BOOLEAN : Commit(c, onClipboardSettled(calls[c], ok))

---------------------------------------------------------------------------
(* The stroke serializer (MyScriptService.strokesToJIIX).                   *)
(*                                                                         *)
(* Coordinates, timestamps and pressures are fixed-point numbers in tenths *)
(* (107 is 10.7); the rounded coordinates of a wire record are whole       *)
(* units.  A point's p is Undef or Num(tenths); a wire record's p is Undef *)
(* when the property is left out and Arr(pressures) otherwise.             *)

\* points of one stroke fed to the serializer
MaxPoints == 2

\* the pressure written for a point that has none (p.p ?? 0.5), in tenths
MissingPressure == 5

\* the language argument left out by the caller
Omitted == "<omitted>"

\* Math.trunc in the place of Math.round: C12 must tell it apart
MathRound_Truncates(v) == IF v >= 0 THEN v \div 10 ELSE -((-v) \div 10)

\* Math.round on tenths: the nearest integer, a half going up
MathRound(v) == (v + 5) \div 10

\* the p property decided by any point of the stroke: C11 must tell it apart
JiixPressure_AnyPoint(points) ==
  IF \E j \in 1..Len(points) : points[j].p.t # "undef"
  THEN Arr([j \in 1..Len(points) |->
              IF points[j].p.t \in {"undef", "null"} THEN MissingPressure
              ELSE points[j].p.n])
  ELSE Undef

\* ...(stroke.points[0]?.p !== undefined && {p: points.map(p => p.p ?? 0.5)})
JiixPressure(points) ==
  IF Len(points) > 0 /\ points[1].p.t # "undef"
  THEN Arr([j \in 1..Len(points) |->
              IF points[j].p.t \in {"undef", "null"} THEN MissingPressure
              ELSE points[j].p.n])
  ELSE Undef

\* stroke ids counted from one: C13 must tell it apart
JiixStroke_OneBased(stroke, strokeIndex) ==
  [id |-> [prefix |-> "stroke-", index |-> strokeIndex + 1],
   pointerType |-> "PEN", pointerId |-> 1,
   x |-> [j \in 1..Len(stroke.points) |-> MathRound(stroke.points[j].x)],
   y |-> [j \in 1..Len(stroke.points) |-> MathRound(stroke.points[j].y)],
   t |-> [j \in 1..Len(stroke.points) |-> stroke.points[j].t],
   p |-> JiixPressure(stroke.points)]

\* one wire record; strokeIndex is the zero-based index given by map
JiixStroke(stroke, strokeIndex) ==
  [id |-> [prefix |-> "stroke-", index |-> strokeIndex],
   pointerType |-> "PEN", pointerId |-> 1,
   x |-> [j \in 1..Len(stroke.points) |-> MathRound(stroke.points[j].x)],
   y |-> [j \in 1..Len(stroke.points) |-> MathRound(stroke.points[j].y)],
   t |-> [j \in 1..Len(stroke.points) |-> stroke.points[j].t],
   p |-> JiixPressure(stroke.points)]

\* a document that asks for no word-level export: C14 must tell it apart
strokesToJIIX_NoWords(strokes, language) ==
  [configuration |->
     [lang |-> IF language = Omitted THEN "en_US" ELSE language,
      export |-> [jiix |-> [boundingBox |-> FALSE, strokes |-> TRUE,
                            text |-> [chars |-> TRUE, words |-> FALSE]]]],
   contentType |-> "Text",
   strokeGroups |->
     <<[strokes |-> [i \in 1..Len(strokes) |-> JiixStroke(strokes[i], i - 1)]]>>]

strokesToJIIX(strokes, language) ==
  [configuration |->
     [lang |-> IF language = Omitted THEN "en_US" ELSE language,
      export |-> [jiix |-> [boundingBox |-> FALSE, strokes |-> TRUE,
                            text |-> [chars |-> TRUE, words |-> TRUE]]]],
   contentType |-> "Text",
   strokeGroups |->
     <<[strokes |-> [i \in 1..Len(strokes) |-> JiixStroke(strokes[i], i - 1)]]>>]

\* a serializer rounding the caller's points in place: C15 must tell it apart
StrokesAfterSerializing_RoundedInPlace(strokes) ==
  [i \in 1..Len(strokes) |->
     [points |-> [j \in 1..Len(strokes[i].points) |->
        [strokes[i].points[j] EXCEPT !.x = 10 * MathRound(@)]]]]

\* the caller's strokes once strokesToJIIX has returned: it reads them
\* through map and builds new arrays, and assigns to no property of them
StrokesAfterSerializing(strokes) == strokes

\* (10.7, 20.3) and (15.2, 25.8) of the rounding example, a point on the
\* halves with zero pressure, a point either side of zero
SamplePoints ==
  {[x |-> 107, y |-> 203, t |-> 10000, p |-> Undef],
   [x |-> 152, y |-> 258, t |-> 11000, p |-> Num(7)],
   [x |-> 105, y |-> -25, t |-> 15,    p |-> Num(0)],
   [x |-> -4,  y |-> 4,   t |-> 0,     p |-> Undef]}

SerializerStrokes == {[points |-> ps] : ps \in SeqsUpTo(SamplePoints, MaxPoints)}

ShortStrokes == {[points |-> ps] : ps \in SeqsUpTo(SamplePoints, 1)}

\* StrokeSets of short strokes, and every single stroke
SerializerInputs ==
  SeqsUpTo(ShortStrokes, MaxStrokes) \cup {<<s>> : s \in SerializerStrokes}

SerializerUnused ==
  /\ serIn = [strokes |-> <<>>, language |-> Omitted]
  /\ serOut = <<>>

---------------------------------------------------------------------------
(* The signing variant of MyScriptService: credentials.                    *)
(*                                                                         *)
(* This variant holds an application key and an HMAC key and falls back    *)
(* to the keys of the build environment (process.env).                     *)

NullHmacOptions == [set |-> FALSE, applicationKey |-> "", hmacKey |-> ""]

hmacConfigure(opts) == [set |-> TRUE, applicationKey |-> opts.applicationKey,
                        hmacKey |-> opts.hmacKey]

\* isConfigured of the signing variant
hmacIsConfigured(opts, e) ==
  LET hasUserKeys == opts.applicationKey # "" /\ opts.hmacKey # ""
      hasBuildKeys == e.MYSCRIPT_APPLICATION_KEY # "" /\ e.MYSCRIPT_HMAC_KEY # ""
  IN hasUserKeys \/ hasBuildKeys

NoKeys == [k |-> "null", applicationKey |-> "", hmacKey |-> ""]
Keys(a, h) == [k |-> "keys", applicationKey |-> a, hmacKey |-> h]

\* getKeys looking at the environment first: C17 must tell it apart
getKeys_EnvFirst(opts, e) ==
  IF e.MYSCRIPT_APPLICATION_KEY # "" /\ e.MYSCRIPT_HMAC_KEY # ""
  THEN Keys(e.MYSCRIPT_APPLICATION_KEY, e.MYSCRIPT_HMAC_KEY)
  ELSE IF opts.applicationKey # "" /\ opts.hmacKey # ""
  THEN Keys(opts.applicationKey, opts.hmacKey)
  ELSE NoKeys

getKeys(opts, e) ==
  IF opts.applicationKey # "" /\ opts.hmacKey # ""
  THEN Keys(opts.applicationKey, opts.hmacKey)
  ELSE IF e.MYSCRIPT_APPLICATION_KEY # "" /\ e.MYSCRIPT_HMAC_KEY # ""
  THEN Keys(e.MYSCRIPT_APPLICATION_KEY, e.MYSCRIPT_HMAC_KEY)
  ELSE NoKeys

\* the keys a recognition of the signing variant puts in its request
\* headers (applicationKey, and the key of the hmac), or its refusal
Refused == [k |-> "throw", applicationKey |-> "", hmacKey |-> ""]

hmacRequestKeys(opts, e) ==
  IF ~hmacIsConfigured(opts, e) THEN Refused
  ELSE LET keys == getKeys(opts, e) IN
       IF keys.k = "null" THEN Refused ELSE keys

NoEnv == [MYSCRIPT_APPLICATION_KEY |-> "", MYSCRIPT_HMAC_KEY |-> ""]

\* keysUsed: the options held when the last recognition of the signing
\* variant was asked for, and the keys it used
NoRequest ==
  [options |-> NullHmacOptions,
   keys |-> [k |-> "none", applicationKey |-> "", hmacKey |-> ""]]

CredentialsUnused ==
  /\ hmacOptions = NullHmacOptions
  /\ env = NoEnv
  /\ keysUsed = NoRequest

---------------------------------------------------------------------------
(* Diagnostic files (MyScriptService.writeDebugFile, saveDebugImage).      *)
(*                                                                         *)
(* A file is its name and the fields of the data written that matter      *)
(* here; appKeyPrefix.of is the key whose first eight characters, followed *)
(* by '...', were written.                                                 *)

NoHeaders == [set |-> FALSE, applicationKey |-> ""]
NoPrefix == [set |-> FALSE, of |-> ""]

DebugInfo(stage, strokes) ==
  [stage |-> stage, strokeCount |-> Len(strokes), error |-> "",
   appKeyPrefix |-> NoPrefix, requestHeaders |-> NoHeaders]

\* nothing is written unless settings.enableDebugFiles is set
writeDebugFile(d, name, data) ==
  IF ~d.enabled THEN d
  ELSE [d EXCEPT !.files = Append(@, [name |-> name, data |-> data])]

\* the files of one recognizeStrokes call
debugRecognizeStrokes(d, opts, strokes, net) ==
  LET start == DebugInfo("start", strokes)
      d1 == writeDebugFile(d, "myscript_request", start)
      sending == [start EXCEPT !.stage = "sending_request",
                    !.appKeyPrefix = [set |-> TRUE, of |-> opts.applicationKey],
                    !.requestHeaders = [set |-> TRUE,
                                        applicationKey |-> opts.applicationKey]]
      d2 == writeDebugFile(d1, "myscript_request", sending)
      caught(dd) == writeDebugFile(dd, "myscript_error",
                                   [sending EXCEPT !.stage = "error", !.error = "error"])
  IN
  IF ~isConfigured(opts)
  THEN writeDebugFile(d1, "myscript_error", [start EXCEPT !.error = "not_configured"])
  ELSE IF Len(strokes) = 0 THEN d1
  ELSE IF net.k = "threw"
  THEN caught(writeDebugFile(d2, "myscript_error",
                             [sending EXCEPT !.stage = "request_threw_error"]))
  ELSE IF net.status # 200
  THEN caught(writeDebugFile(d2, "myscript_error",
                             [sending EXCEPT !.stage = "error_status"]))
  ELSE IF StrokeResponse(net).k = "throw" THEN caught(d2)
  ELSE d2

\* the files of saveDebugImage: the image, the strokes when there are any,
\* the stroke log
debugSaveImage(d, strokes) ==
  LET file(name) == [name |-> name, data |-> DebugInfo("", strokes)]
  IN [d EXCEPT !.files =
        @ \o <<file("debug_ocr.png")>>
          \o (IF Len(strokes) > 0 THEN <<file("debug_ocr_strokes.json")>> ELSE <<>>)
          \o <<file("debug_ocr.txt")>>]

DebugUnused == debug = [enabled |-> FALSE, files |-> <<>>]

---------------------------------------------------------------------------
(* Stroke capture of the view (HandwritingView.setupDrawingEvents).        *)
(*                                                                         *)
(* view holds the fields of the view and the closure variables lastX and   *)
(* lastY; currentStroke.set is FALSE for null; hasCtx is FALSE when        *)
(* canvas.getContext returned null; canvas is the list of marks drawn      *)
(* since the last clear; lineWidth is in hundredths.  pointer holds the    *)
(* clock (Date.now), the number of events handled and the last event.      *)

\* pointer events and clear requests handled by the view
MaxEvents == 4

NoStroke == [set |-> FALSE, points |-> <<>>]

FreshView(hasCtx) ==
  [isDrawing |-> FALSE, currentStroke |-> NoStroke, strokeStartTime |-> 0,
   pressureValues |-> <<>>, strokeLogs |-> 0, lastX |-> 0, lastY |-> 0,
   hasCtx |-> hasCtx, lineWidth |-> 450, canvas |-> <<>>]

\* a pointer event, with the bounding rectangle of the canvas when it fires
PointerEvents ==
  {[clientX |-> 127, clientY |-> 213, left |-> 20, top |-> 10, pressure |-> Undef],
   [clientX |-> 30,  clientY |-> 5,   left |-> 20, top |-> 10, pressure |-> Num(0)],
   [clientX |-> 152, clientY |-> 258, left |-> 0,  top |-> 0,  pressure |-> Num(10)]}

NoEvent == [type |-> "none",
            e |-> [clientX |-> 0, clientY |-> 0, left |-> 0, top |-> 0,
                   pressure |-> Undef]]

getCoords(e) == [x |-> e.clientX - e.left, y |-> e.clientY - e.top]

\* the reported pressure recorded as it is: C19 must tell it apart
Pressure_AsReported(e) ==
  IF e.pressure.t # "undef" THEN e.pressure.n ELSE DefaultPressure

\* e.pressure !== undefined && e.pressure > 0 ? e.pressure : 0.5
Pressure(e) ==
  IF e.pressure.t # "undef" /\ e.pressure.n > 0 THEN e.pressure.n
  ELSE DefaultPressure

Mark(kind, x0, y0, x1, y1, width) ==
  [kind |-> kind, x0 |-> x0, y0 |-> y0, x1 |-> x1, y1 |-> y1, width |-> width]

\* a first point stamped with the clock instead of 0: C22 must tell it apart
start_AbsoluteTime(v, e, now) ==
  LET c == getCoords(e) IN
  [v EXCEPT !.isDrawing = TRUE, !.lastX = c.x, !.lastY = c.y,
            !.strokeStartTime = now,
            !.currentStroke =
               [set |-> TRUE,
                points |-> <<[x |-> c.x, y |-> c.y, t |-> now, p |-> Num(Pressure(e))]>>],
            !.canvas = IF v.hasCtx
                       THEN Append(@, Mark("dot", c.x, c.y, c.x, c.y, v.lineWidth))
                       ELSE @]

\* pointerdown
start(v, e, now) ==
  LET c == getCoords(e) IN
  [v EXCEPT !.isDrawing = TRUE, !.lastX = c.x, !.lastY = c.y,
            !.strokeStartTime = now,
            !.currentStroke =
               [set |-> TRUE,
                points |-> <<[x |-> c.x, y |-> c.y, t |-> 0, p |-> Num(Pressure(e))]>>],
            !.canvas = IF v.hasCtx
                       THEN Append(@, Mark("dot", c.x, c.y, c.x, c.y, v.lineWidth))
                       ELSE @]

\* pointermove
move(v, e, now) ==
  IF ~v.isDrawing \/ ~v.hasCtx THEN v
  ELSE LET pressure == Pressure(e)
           dynamicWidth == 45 * (5 + pressure)
           c == getCoords(e)
       IN [v EXCEPT
             !.pressureValues = Append(@, pressure),
             !.currentStroke =
                IF @.set
                THEN [@ EXCEPT !.points =
                        Append(@, [x |-> c.x, y |-> c.y,
                                   t |-> now - v.strokeStartTime,
                                   p |-> Num(pressure)])]
                ELSE @,
             !.lineWidth = dynamicWidth,
             !.canvas = Append(@, Mark("segment", v.lastX, v.lastY, c.x, c.y,
                                       dynamicWidth)),
             !.lastX = c.x, !.lastY = c.y]

\* pointerup, pointerout, pointercancel: the view, then the StrokeSet
end(v) ==
  IF ~v.isDrawing THEN v
  ELSE [v EXCEPT
          !.isDrawing = FALSE,
          !.currentStroke = IF @.set /\ Len(@.points) > 0 THEN NoStroke ELSE @,
          !.strokeLogs = IF Len(v.pressureValues) > 0 THEN @ + 1 ELSE @,
          !.pressureValues = <<>>]

\* the sealed stroke put in front of the StrokeSet: C21 must tell it apart
endStrokes_Unshift(v, strokes) ==
  IF v.isDrawing /\ v.currentStroke.set /\ Len(v.currentStroke.points) > 0
  THEN <<[points |-> v.currentStroke.points]>> \o strokes
  ELSE strokes

endStrokes(v, strokes) ==
  IF v.isDrawing /\ v.currentStroke.set /\ Len(v.currentStroke.points) > 0
  THEN Append(strokes, [points |-> v.currentStroke.points])
  ELSE strokes

clearCanvas(v) ==
  IF ~v.hasCtx THEN v
  ELSE [v EXCEPT !.canvas = <<>>, !.currentStroke = NoStroke]

clearCanvasStrokes(v, strokes) == IF ~v.hasCtx THEN strokes ELSE <<>>

CaptureUnused ==
  /\ view = FreshView(TRUE)
  /\ pointer = [now |-> 0, events |-> 0, last |-> NoEvent]

---------------------------------------------------------------------------
(* Capture and recognition at the level of objects.                        *)
(*                                                                         *)
(* heap.arrays holds every points array by address, heap.lists every      *)
(* array of strokes by address (a stroke object is the address of its      *)
(* points array); capturedStrokes is the address of the view's array of    *)
(* strokes, currentStroke the address of the points array of the current   *)
(* stroke or 0 for null.  call is the recognition in flight: arg is the    *)
(* address of the array handed to recognizeStrokes, atCall the sealed      *)
(* strokes, by value, when runOcr was invoked, payload the documents       *)
(* serialized.                                                             *)

NoRecognition == [pc |-> "idle", arg |-> 0, atCall |-> <<>>, payload |-> <<>>]

FreshHeap(hasCtx) ==
  [arrays |-> <<>>, lists |-> <<<<>>>>, capturedStrokes |-> 1, currentStroke |-> 0,
   isDrawing |-> FALSE, hasCtx |-> hasCtx, strokeStartTime |-> 0, now |-> 0,
   events |-> 0, call |-> NoRecognition]

\* the strokes of the array at address l, by value
StrokesAt(h, l) ==
  [i \in 1..Len(h.lists[l]) |-> [points |-> h.arrays[h.lists[l][i]]]]

\* start: this.currentStroke = {points: [...]}, a new array
startOn(h, e, now) ==
  LET c == getCoords(e) IN
  [h EXCEPT !.isDrawing = TRUE, !.strokeStartTime = now,
            !.arrays = Append(@, <<[x |-> c.x, y |-> c.y, t |-> 0,
                                    p |-> Num(Pressure(e))]>>),
            !.currentStroke = Len(h.arrays) + 1]

\* move: this.currentStroke.points.push(...), in place
moveOn(h, e, now) ==
  IF ~h.isDrawing \/ ~h.hasCtx \/ h.currentStroke = 0 THEN h
  ELSE LET c == getCoords(e) IN
       [h EXCEPT !.arrays[h.currentStroke] =
                    Append(@, [x |-> c.x, y |-> c.y, t |-> now - h.strokeStartTime,
                               p |-> Num(Pressure(e))])]

\* end: this.capturedStrokes.push(this.currentStroke), in place, then null
endOn(h) ==
  IF ~h.isDrawing THEN h
  ELSE IF h.currentStroke # 0 /\ Len(h.arrays[h.currentStroke]) > 0
  THEN [h EXCEPT !.isDrawing = FALSE,
                 !.lists[h.capturedStrokes] = Append(@, h.currentStroke),
                 !.currentStroke = 0]
  ELSE [h EXCEPT !.isDrawing = FALSE]

\* clearCanvas: this.capturedStrokes = [], a new array
clearCanvasOn(h) ==
  IF ~h.hasCtx THEN h
  ELSE [h EXCEPT !.lists = Append(@, <<>>),
                 !.capturedStrokes = Len(h.lists) + 1,
                 !.currentStroke = 0]

\* getCapturedStrokes handing out the view's own array: C24 must tell it
\* apart
getCapturedStrokes_SameArray(h) == [heap |-> h, strokes |-> h.capturedStrokes]

\* getCapturedStrokes: map builds a new array of new stroke objects that
\* share the points arrays
getCapturedStrokes(h) ==
  [heap |-> [h EXCEPT !.lists = Append(@, h.lists[h.capturedStrokes])],
   strokes |-> Len(h.lists) + 1]

\* runOcr with the MyScript engine configured and stroke capture on, up to
\* the first await of recognizeStrokes; without strokes it takes the
\* bitmap path, which serializes no strokes
runOcrOn(h) ==
  LET got == getCapturedStrokes(h) IN
  IF Len(got.heap.lists[got.strokes]) > 0
  THEN [got.heap EXCEPT !.call = [pc |-> "suspended", arg |-> got.strokes,
                                  atCall |-> StrokesAt(h, h.capturedStrokes),
                                  payload |-> <<>>]]
  ELSE [got.heap EXCEPT !.call = [NoRecognition EXCEPT !.pc = "bitmap"]]

\* recognizeStrokes resumed: strokesToJIIX(strokes, language), then the
\* request
sendOn(h) ==
  [h EXCEPT !.call.pc = "sent",
            !.call.payload = <<strokesToJIIX(StrokesAt(h, h.call.arg), "en_US")>>]

HeapUnused == heap = FreshHeap(TRUE)

---------------------------------------------------------------------------
(* The rasterizer (HandwritingView.getPaddedImage).                        *)
(*                                                                         *)
(* A pixel is [r, g, b, a], each 0..255.  The canvas is one row of pixels  *)
(* (its backing store); an image is its width, its height and its pixels   *)
(* by column and row, counted from 0.                                      *)

\* pixels in the row of the canvas
MaxPixels == 2

padding == 20
threshold == 180

Pixel(r, g, b, a) == [r |-> r, g |-> g, b |-> b, a |-> a]
White == Pixel(255, 255, 255, 255)

\* source-over compositing of a pixel on the white fill of the temporary
\* canvas
OverWhite(px) ==
  Pixel((px.r * px.a + 255 * (255 - px.a)) \div 255,
        (px.g * px.a + 255 * (255 - px.a)) \div 255,
        (px.b * px.a + 255 * (255 - px.a)) \div 255,
        255)

\* a threshold test that lets the threshold itself through: C25 must tell
\* it apart
Binarize_AtLeast(px) ==
  LET val == IF px.r + px.g + px.b >= 3 * threshold THEN 255 ELSE 0
  IN Pixel(val, val, val, px.a)

\* brightness = (r + g + b) / 3; val = brightness > threshold ? 255 : 0;
\* the alpha channel is left as it is
Binarize(px) ==
  LET val == IF px.r + px.g + px.b > 3 * threshold THEN 255 ELSE 0
  IN Pixel(val, val, val, px.a)

Image(width, height, at) == [width |-> width, height |-> height, at |-> at]

\* the canvas as toDataURL encodes it
CanvasImage(row) ==
  Image(Len(row), 1, [x \in 0..(Len(row) - 1) |-> [y \in 0..0 |-> row[x + 1]]])

\* getPaddedImage; tCtx is FALSE when the temporary canvas gives no context
getPaddedImage(row, dpr, tCtx) ==
  IF ~tCtx THEN CanvasImage(row)
  ELSE LET width == Len(row) + padding * 2 * dpr
           height == 1 + padding * 2 * dpr
           drawn(x, y) ==
             IF /\ x >= padding * dpr /\ x < padding * dpr + Len(row)
                /\ y = padding * dpr
             THEN OverWhite(row[x - padding * dpr + 1])
             ELSE White
       IN Image(width, height,
                [x \in 0..(width - 1) |-> [y \in 0..(height - 1) |-> Binarize(drawn(x, y))]])

\* pixels either side of the threshold: grey levels 179, 180 and 181, two
\* colours averaging 180 and 181, black under partial and no opacity
CanvasPixels ==
  {White, Pixel(0, 0, 0, 255), Pixel(179, 179, 179, 255), Pixel(180, 180, 180, 255),
   Pixel(181, 181, 181, 255), Pixel(255, 255, 30, 255), Pixel(255, 255, 33, 255),
   Pixel(0, 0, 0, 75), Pixel(0, 0, 0, 0)}

CanvasRows == SeqsUpTo(CanvasPixels, MaxPixels) \ {<<>>}

RasterUnused ==
  raster = [canvas |-> <<White>>, dpr |-> 1, tCtx |-> TRUE, out |-> <<>>]

---------------------------------------------------------------------------
(* The drawing surface under resizing (HandwritingView.resizeCanvas).      *)
(*                                                                         *)
(* The canvas holds the ink of the strokes drawn on it (by their number),  *)
(* on a background that is transparent until resizeCanvas first fills it.  *)
(* An image is what toDataURL captured: the ink and the background.        *)

\* strokes drawn on the surface in a run
MaxMarks == 2
\* resizes in a run
MaxResizes == 2

\* the canvas element before any resize: 300 by 150, transparent
DefaultWidth == 300
DefaultHeight == 150

FreshSurface(hasCtx) ==
  [width |-> DefaultWidth, height |-> DefaultHeight, ink |-> {}, opaque |-> FALSE,
   hasCtx |-> hasCtx, rect |-> [width |-> 0, height |-> 0], dpr |-> 1,
   pending |-> {}, drawn |-> {}, resizes |-> 0]

\* the segments move draws for one stroke
drawStroke(s, k) ==
  IF ~s.hasCtx THEN s
  ELSE [s EXCEPT !.ink = @ \cup {k}, !.drawn = @ \cup {k}]

\* resizeCanvas with the box of the parent and the pixel ratio of the window
resizeCanvas(s, rect, dpr) ==
  LET seen == [s EXCEPT !.rect = rect, !.dpr = dpr, !.resizes = @ + 1]
      prevContent == [id |-> s.resizes + 1, ink |-> s.ink, opaque |-> s.opaque]
      sized == [seen EXCEPT !.width = rect.width * dpr,
                            !.height = rect.height * dpr,
                            !.ink = {},
                            !.opaque = FALSE]
  IN IF rect.width = 0 \/ rect.height = 0 THEN seen
     ELSE IF ~s.hasCtx THEN sized
     ELSE [sized EXCEPT !.opaque = TRUE, !.pending = @ \cup {prevContent}]

\* img.onload: the captured image is drawn over the whole canvas
restore(s, img) ==
  [s EXCEPT !.pending = @ \ {img},
            !.ink = IF ~s.hasCtx THEN @
                    ELSE IF img.opaque THEN img.ink ELSE @ \cup img.ink]

SurfaceUnused == surface = FreshSurface(TRUE)

---------------------------------------------------------------------------
(* The local OCR service (OcrService of ocrService.ts).                    *)
(*                                                                         *)
(* Workers are numbered in the order createWorker was called; 0 is null.   *)
(* A call of initialize, recognize or terminate runs up to its next await  *)
(* of the vault or of a worker in one step; pc names what it is waiting    *)
(* for.  An await of a promise that is already settled (initialize inside  *)
(* recognize, terminate inside initialize) goes on in the same step: only  *)
(* microtasks run before it does.                                          *)

\* calls of the service in a run
MaxOcrCalls == 3
\* the callers of the service: a call overlaps at most one other call
OcrSlots == {1, 2}

\* an option left out of OcrOptions is "undefined"
OcrOptions ==
  {[handwriting |-> "undefined", language |-> "undefined"],
   [handwriting |-> "false", language |-> "undefined"],
   [handwriting |-> "true", language |-> "deu"]}

\* const { handwriting = true, language = 'eng' } = options
handwritingOf(opts) ==
  IF opts.handwriting = "undefined" THEN TRUE ELSE opts.handwriting = "true"

languageOf(opts) ==
  IF opts.language = "undefined" THEN "eng" ELSE opts.language

NoOcrCall ==
  [op |-> "none", options |-> [handwriting |-> "undefined", language |-> "undefined"],
   handwriting |-> TRUE, language |-> "eng", pc |-> "idle", w |-> 0]

FreshOcr ==
  [worker |-> 0, isInitializing |-> FALSE, currentLanguage |-> "eng",
   isHandwritingMode |-> FALSE, workers |-> <<>>,
   calls |-> [k \in OcrSlots |-> NoOcrCall],
   started |-> 0, completed |-> FALSE, failed |-> FALSE, overlap |-> FALSE,
   modes |-> {}, terminateCalled |-> FALSE, noticed |-> FALSE]

\* the call in a slot has settled
settle(o, k, ok) ==
  [o EXCEPT !.calls[k] = NoOcrCall,
            !.completed = TRUE,
            !.failed = @ \/ ~ok]

\* worker.terminate() is called on the worker the service holds
callWorkerTerminate(o) ==
  [o EXCEPT !.workers[o.worker].terminations = @ + 1]

\* the held worker is never kept: C27 must tell this apart
keepsWorker_Never(o, handwriting, language) == FALSE

\* if (this.worker && !modeChanged) return
keepsWorker(o, handwriting, language) ==
  LET modeChanged == o.isHandwritingMode # handwriting \/ o.currentLanguage # language
  IN o.worker # 0 /\ ~modeChanged

\* automatic layout in either mode: C29 must tell this apart
pageSegMode_AlwaysAuto(handwriting) == "AUTO"

\* tessedit_pageseg_mode of setParameters
pageSegMode(handwriting) == IF handwriting THEN "SINGLE_BLOCK" ELSE "AUTO"

\* recognize goes on after initialize: this.worker!.recognize(input), a
\* TypeError when there is no worker
recognizeOn(o, k) ==
  IF o.worker = 0
  THEN [o EXCEPT !.calls[k].pc = "logRecognize", !.calls[k].w = 0]
  ELSE [o EXCEPT !.calls[k].pc = "recognize", !.calls[k].w = o.worker]

\* initialize returns: to its caller, or to recognize at its await
afterInitialize(o, k) ==
  IF o.calls[k].op = "initialize" THEN settle(o, k, TRUE)
  ELSE recognizeOn(o, k)

\* initialize from `if (this.isInitializing) return` to its first await
beginInitializing(o, k) ==
  IF o.isInitializing THEN afterInitialize(o, k)
  ELSE [o EXCEPT !.isInitializing = TRUE,
                 !.currentLanguage = o.calls[k].language,
                 !.isHandwritingMode = o.calls[k].handwriting,
                 !.calls[k].pc = "assets"]

\* initialize from its first line to its first await
initialize(o, k) ==
  LET c == o.calls[k]
  IN IF keepsWorker(o, c.handwriting, c.language) THEN afterInitialize(o, k)
     ELSE IF o.worker # 0
       THEN [callWorkerTerminate(o) EXCEPT !.calls[k].pc = "workerTerminate",
                                           !.calls[k].w = o.worker]
       ELSE beginInitializing(o, k)

\* terminate() called from outside
terminate(o, k) ==
  IF o.worker # 0
  THEN [callWorkerTerminate(o) EXCEPT !.calls[k].pc = "workerTerminate",
                                      !.calls[k].w = o.worker]
  ELSE settle(o, k, TRUE)

\* a call begins
ocrCall(o, k, op, opts) ==
  LET entered ==
        [o EXCEPT !.calls[k] = [op |-> op, options |-> opts,
                                handwriting |-> handwritingOf(opts),
                                language |-> languageOf(opts),
                                pc |-> "called", w |-> 0],
                  !.started = @ + 1,
                  !.overlap = @ \/ \E j \in OcrSlots : o.calls[j].pc # "idle",
                  !.modes = IF op = "terminate" THEN @
                            ELSE @ \cup {<<handwritingOf(opts), languageOf(opts)>>},
                  !.terminateCalled = @ \/ op = "terminate"]
  IN IF op = "terminate" THEN terminate(entered, k) ELSE initialize(entered, k)

\* await this.worker.terminate() resolves: this.worker = null, and
\* initialize goes on
workerTerminated(o, k) ==
  LET nulled == [o EXCEPT !.workers[o.calls[k].w].state = "terminated",
                          !.worker = 0]
  IN IF o.calls[k].op = "terminate" THEN settle(nulled, k, TRUE)
     ELSE beginInitializing(nulled, k)

\* adapter.exists and adapter.read resolve: createWorker is called, or the
\* worker file is missing
assetsRead(o, k, found) ==
  IF ~found THEN [o EXCEPT !.calls[k].pc = "log"]
  ELSE [o EXCEPT !.workers = Append(@, [language |-> o.calls[k].language,
                                        by |-> o.calls[k].options,
                                        psm |-> "unset", state |-> "starting",
                                        terminations |-> 0]),
                 !.calls[k].pc = "createWorker",
                 !.calls[k].w = Len(o.workers) + 1]

\* createWorker settles: this.worker = the worker, setParameters is called
workerCreated(o, k, ok) ==
  IF ~ok THEN [o EXCEPT !.workers[o.calls[k].w].state = "failed",
                        !.calls[k].pc = "log"]
  ELSE [o EXCEPT !.workers[o.calls[k].w].state =
                    IF @ = "starting" THEN "live" ELSE @,
                 !.worker = o.calls[k].w,
                 !.calls[k].pc = "setParameters"]

\* setParameters settles; when it resolved, finally: isInitializing = false
parametersSet(o, k, ok) ==
  IF ~ok THEN [o EXCEPT !.calls[k].pc = "log"]
  ELSE afterInitialize(
         [o EXCEPT !.workers[o.calls[k].w].psm = pageSegMode(o.calls[k].handwriting),
                   !.isInitializing = FALSE], k)

\* logErrorToFile resolves in the catch of initialize; the notice; throw;
\* finally: isInitializing = false
initializeFailed(o, k) ==
  settle([o EXCEPT !.isInitializing = FALSE, !.noticed = TRUE], k, FALSE)

\* worker.recognize settles
recognized(o, k, ok) ==
  IF ok THEN settle(o, k, TRUE)
  ELSE [o EXCEPT !.calls[k].pc = "logRecognize"]

OcrUnused == ocr = FreshOcr

---------------------------------------------------------------------------
(* What the cloud adapter raises for a response that is not a success      *)
(* (recognizeStrokes and recognizeBitmap of myScriptService.ts).           *)
(*                                                                         *)
(* A text is kept by its length; substring(0, n) of a text of length l has *)
(* length min(l, n).  An absent text (undefined) has length -1.            *)

\* the longest response body
MaxBodyLength == 4000

\* substring(0, 2000) of the texts written to the diagnostic files
DebugTextLimit == 2000

Absent == -1

Substring(len, n) == IF len = Absent THEN Absent ELSE IF len < n THEN len ELSE n

\* what requestUrl gives: a response it returns, or an error it throws for
\* the status, with the body when it has one and its own message
Responded(status, text) ==
  [kind |-> "response", status |-> status, text |-> text, message |-> Absent]
Threw(status, text, message) ==
  [kind |-> "threw", status |-> status, text |-> text, message |-> message]

NoFailure == [raised |-> FALSE, prefix |-> "", status |-> 0, body |-> Absent,
              debugText |-> Absent]

\* new Error(`${prefix}: ${status} ${body}`), and the text kept for the
\* diagnostic file
Raised(prefix, status, body, debugText) ==
  [raised |-> TRUE, prefix |-> prefix, status |-> status, body |-> body,
   debugText |-> debugText]

\* recognizeStrokes from requestUrl to the status test
requestStrokes(net) ==
  IF net.kind = "threw"
  THEN Raised("MyScript request failed", net.status,
              IF net.text > 0 THEN net.text ELSE net.message,
              Substring(net.text, DebugTextLimit))
  ELSE IF net.status # 200
  THEN Raised("MyScript API error", net.status, net.text,
              Substring(net.text, DebugTextLimit))
  ELSE NoFailure

\* recognizeBitmap from requestUrl to the status test: an error requestUrl
\* throws goes to the caller as it is
requestBitmap(net) ==
  IF net.kind = "threw"
  THEN Raised("", net.status, net.message, Absent)
  ELSE IF net.status # 200
  THEN Raised("MyScript API error", net.status, net.text, Absent)
  ELSE NoFailure

BodyLengths == {0, 12, DebugTextLimit, DebugTextLimit + 1, MaxBodyLength}

Statuses == {200, 204, 401, 500}

FailureNets ==
  {Responded(st, t) : st \in Statuses, t \in BodyLengths}
    \cup {Threw(st, t, 26) : st \in {401, 500}, t \in BodyLengths \cup {Absent}}

FailureUnused ==
  failure = [path |-> "strokes", net |-> Responded(200, 0), called |-> FALSE,
             error |-> NoFailure]

---------------------------------------------------------------------------
(* The settings tab (OOCRSettingTab.display) and overlapping recognitions. *)
(*                                                                         *)
(* config counts the changes made in the settings tab and the onChange     *)
(* handlers that are awaiting saveSettings: keySaves those of the two key  *)
(* fields, which call updateMyScriptConfig afterwards, languageSaves those *)
(* of the language field, which do not.  overlapping holds the runOcr      *)
(* calls of a view whose recognition button is clicked again while a call  *)
(* is in flight.                                                           *)

\* changes made in the settings tab
MaxChanges == 3

NoConfig == [changes |-> 0, keySaves |-> 0, languageSaves |-> 0, saveFailed |-> FALSE]

\* onChange of the language field: value || 'en_US'
languageChanged(s, value) ==
  [s EXCEPT !.myScriptLanguage = IF value = "" THEN "en_US" ELSE value]

\* the language recognizeStrokes serializes with: options?.language || 'en_US'
requestLanguage(opts) ==
  IF ~opts.set \/ opts.language = "" THEN "en_US" ELSE opts.language

\* the two clicks of the recognition button
Callers == {1, 2}

ConfigUnused == config = NoConfig

OverlappingUnused == overlapping = [c \in Callers |-> NoCall]

ExtUnused ==
  /\ HeapUnused /\ RasterUnused /\ SurfaceUnused /\ OcrUnused /\ FailureUnused
  /\ ConfigUnused /\ OverlappingUnused

---------------------------------------------------------------------------
(* The recognition flow of the view.                                       *)

\* plugin load: settings from loadData, the service configured from them
Init ==
  /\ settings \in SettingsValues
  /\ options = updateMyScriptConfig(NullOptions, settings)
  /\ capturedStrokes \in StrokeSets
  /\ cursor = "crosshair"
  /\ calls = [c \in CallIds |-> NoCall]
  /\ svcArgs = [op |-> "none", strokes |-> <<>>, net |-> NetThrew]
  /\ svcRes = Pending
  /\ SerializerUnused /\ CredentialsUnused /\ DebugUnused /\ CaptureUnused /\ ExtUnused

Next ==
  \E c \in CallIds :
    \/ RunOcrStart(c)
    \/ StrokeReply(c)
    \/ BitmapReply(c)
    \/ LocalReply(c)
    \/ ClipboardReply(c)

Spec == Init /\ [][Next]_vars

\* every promise a call waits for settles
FairSpec == Spec /\ WF_vars(Next)

---------------------------------------------------------------------------
(* The cloud adapter called directly.                                      *)

SvcRecognizeStrokes ==
  /\ svcArgs.op = "strokes"
  /\ svcRes.k = "pending"
  /\ svcRes' = recognizeStrokes(options, svcArgs.strokes, svcArgs.net)
  /\ debug' = debugRecognizeStrokes(debug, options, svcArgs.strokes, svcArgs.net)
  /\ UNCHANGED <<settings, options, capturedStrokes, cursor, calls, svcArgs,
               serVars, credVars, capVars, extVars>>

SvcRecognizeBitmap ==
  /\ svcArgs.op = "bitmap"
  /\ svcRes.k = "pending"
  /\ svcRes' = recognizeBitmap(options, svcArgs.net)
  /\ UNCHANGED <<settings, options, capturedStrokes, cursor, calls, svcArgs,
               serVars, credVars, debug, capVars, extVars>>

AdapterOptions ==
  {NullOptions} \cup {configure([applicationKey |-> k, language |-> "en_US"]) :
                        k \in {"", "key"}}

AdapterInit ==
  /\ settings = DEFAULT_SETTINGS
  /\ capturedStrokes = <<>>
  /\ cursor = "crosshair"
  /\ calls = [c \in CallIds |-> NoCall]
  /\ svcRes = Pending
  /\ SerializerUnused /\ CredentialsUnused /\ DebugUnused /\ CaptureUnused /\ ExtUnused
  /\ \/ /\ options \in AdapterOptions
        /\ svcArgs \in [op : {"strokes", "bitmap"}, strokes : StrokeSets, net : SomeNets]
     \/ /\ options = configure([applicationKey |-> "key", language |-> "en_US"])
        /\ svcArgs \in [op : {"strokes", "bitmap"}, strokes : {SampleStrokes(1)},
                        net : AllNets]

AdapterNext == SvcRecognizeStrokes \/ SvcRecognizeBitmap

AdapterSpec == AdapterInit /\ [][AdapterNext]_vars

---------------------------------------------------------------------------
(* The serializer called on its own: strokesToJIIX twice on one argument.  *)

FlowUnused ==
  /\ settings = DEFAULT_SETTINGS
  /\ cursor = "crosshair"
  /\ calls = [c \in CallIds |-> NoCall]
  /\ svcArgs = [op |-> "none", strokes |-> <<>>, net |-> NetThrew]
  /\ svcRes = Pending

CallStrokesToJIIX ==
  /\ Len(serOut) < 2
  /\ serOut' = Append(serOut, strokesToJIIX(serIn.strokes, serIn.language))
  /\ serIn' = [serIn EXCEPT !.strokes = StrokesAfterSerializing(@)]
  /\ UNCHANGED <<settings, options, capturedStrokes, cursor, calls, svcArgs, svcRes,
                 credVars, debug, capVars, extVars>>

SerializerInit ==
  /\ FlowUnused
  /\ options \in AdapterOptions
  /\ capturedStrokes = <<>>
  /\ serIn \in [strokes : SerializerInputs, language : {Omitted, "en_US", "fr_FR"}]
  /\ serOut = <<>>
  /\ CredentialsUnused /\ DebugUnused /\ CaptureUnused /\ ExtUnused

SerializerNext == CallStrokesToJIIX

SerializerSpec == SerializerInit /\ [][SerializerNext]_vars

---------------------------------------------------------------------------
(* Credentials: both adapters configured and asked, in any order.          *)

Configure ==
  /\ \E o \in [applicationKey : {"", "key"}, language : {"en_US", "fr_FR"}] :
       options' = configure(o)
  /\ UNCHANGED <<settings, capturedStrokes, cursor, calls, svcArgs, svcRes,
                 serVars, credVars, debug, capVars, extVars>>

HmacConfigure ==
  /\ \E o \in [applicationKey : {"", "ukey"}, hmacKey : {"", "uhmac"}] :
       hmacOptions' = hmacConfigure(o)
  /\ UNCHANGED <<settings, options, capturedStrokes, cursor, calls, svcArgs, svcRes,
                 serVars, env, keysUsed, debug, capVars, extVars>>

\* a recognition of the signing variant, up to the headers of its request
HmacRequest ==
  /\ keysUsed' = [options |-> hmacOptions, keys |-> hmacRequestKeys(hmacOptions, env)]
  /\ UNCHANGED <<settings, options, capturedStrokes, cursor, calls, svcArgs, svcRes,
                 serVars, hmacOptions, env, debug, capVars, extVars>>

EnvValues ==
  [MYSCRIPT_APPLICATION_KEY : {"", "ekey"}, MYSCRIPT_HMAC_KEY : {"", "ehmac"}]

CredentialInit ==
  /\ FlowUnused
  /\ options = NullOptions
  /\ capturedStrokes = <<>>
  /\ hmacOptions = NullHmacOptions
  /\ env \in EnvValues
  /\ keysUsed = NoRequest
  /\ SerializerUnused /\ DebugUnused /\ CaptureUnused /\ ExtUnused

CredentialNext == Configure \/ HmacConfigure \/ HmacRequest

CredentialSpec == CredentialInit /\ [][CredentialNext]_vars

---------------------------------------------------------------------------
(* Diagnostic files: one recognition and one debug save, with the debug    *)
(* files switched on or off.                                               *)

SaveDebugImage ==
  /\ \A i \in 1..Len(debug.files) : debug.files[i].name # "debug_ocr.png"
  /\ debug' = debugSaveImage(debug, capturedStrokes)
  /\ UNCHANGED <<settings, options, capturedStrokes, cursor, calls, svcArgs, svcRes,
                 serVars, credVars, capVars, extVars>>

DebugInit ==
  /\ settings = DEFAULT_SETTINGS
  /\ cursor = "crosshair"
  /\ calls = [c \in CallIds |-> NoCall]
  /\ options \in AdapterOptions
  /\ capturedStrokes \in StrokeSets
  /\ svcArgs \in [op : {"strokes"}, strokes : StrokeSets, net : SomeNets]
  /\ svcRes = Pending
  /\ debug \in [enabled : BOOLEAN, files : {<<>>}]
  /\ SerializerUnused /\ CredentialsUnused /\ CaptureUnused /\ ExtUnused

DebugNext == SvcRecognizeStrokes \/ SaveDebugImage

DebugSpec == DebugInit /\ [][DebugNext]_vars

---------------------------------------------------------------------------
(* Capture: pointer events and clear requests reaching the view.           *)

Handled(type, e, dt) ==
  [now |-> pointer.now + dt, events |-> pointer.events + 1,
   last |-> [type |-> type, e |-> e]]

PointerDown(e, dt) ==
  /\ pointer.events < MaxEvents
  /\ pointer' = Handled("start", e, dt)
  /\ view' = start(view, e, pointer.now + dt)
  /\ UNCHANGED <<settings, options, capturedStrokes, cursor, calls, svcArgs, svcRes,
                 serVars, credVars, debug, extVars>>

PointerMove(e, dt) ==
  /\ pointer.events < MaxEvents
  /\ pointer' = Handled("move", e, dt)
  /\ view' = move(view, e, pointer.now + dt)
  /\ UNCHANGED <<settings, options, capturedStrokes, cursor, calls, svcArgs, svcRes,
                 serVars, credVars, debug, extVars>>

PointerUp(e, dt) ==
  /\ pointer.events < MaxEvents
  /\ pointer' = Handled("end", e, dt)
  /\ view' = end(view)
  /\ capturedStrokes' = endStrokes(view, capturedStrokes)
  /\ UNCHANGED <<settings, options, cursor, calls, svcArgs, svcRes,
                 serVars, credVars, debug, extVars>>

ClearCanvas(dt) ==
  /\ pointer.events < MaxEvents
  /\ pointer' = Handled("clear", NoEvent.e, dt)
  /\ view' = clearCanvas(view)
  /\ capturedStrokes' = clearCanvasStrokes(view, capturedStrokes)
  /\ UNCHANGED <<settings, options, cursor, calls, svcArgs, svcRes,
                 serVars, credVars, debug, extVars>>

CaptureInit ==
  /\ FlowUnused
  /\ options = NullOptions
  /\ capturedStrokes = <<>>
  /\ \E hasCtx \in BOOLEAN : view = FreshView(hasCtx)
  /\ pointer = [now |-> 0, events |-> 0, last |-> NoEvent]
  /\ SerializerUnused /\ CredentialsUnused /\ DebugUnused /\ ExtUnused

CaptureNext ==
  \E e \in PointerEvents, dt \in {0, 1} :
    \/ PointerDown(e, dt)
    \/ PointerMove(e, dt)
    \/ PointerUp(e, dt)
    \/ ClearCanvas(dt)

CaptureSpec == CaptureInit /\ [][CaptureNext]_vars

---------------------------------------------------------------------------
(* A recognition of strokes with pointer events and clear requests         *)
(* arriving while it is suspended.                                         *)

HeapFrame ==
  UNCHANGED <<settings, options, capturedStrokes, cursor, calls, svcArgs, svcRes,
              serVars, credVars, debug, capVars, raster, surface, ocr, failure, config, overlapping>>

Counted(h, dt) == [h EXCEPT !.now = @ + dt, !.events = @ + 1]

HeapPointerDown(e) ==
  /\ heap.events < MaxEvents
  /\ heap' = Counted(startOn(heap, e, heap.now + 1), 1)
  /\ HeapFrame

HeapPointerMove(e) ==
  /\ heap.events < MaxEvents
  /\ heap' = Counted(moveOn(heap, e, heap.now + 1), 1)
  /\ HeapFrame

HeapPointerUp ==
  /\ heap.events < MaxEvents
  /\ heap' = Counted(endOn(heap), 1)
  /\ HeapFrame

HeapClearCanvas ==
  /\ heap.events < MaxEvents
  /\ heap' = Counted(clearCanvasOn(heap), 1)
  /\ HeapFrame

HeapRunOcr ==
  /\ heap.call.pc = "idle"
  /\ heap' = runOcrOn(heap)
  /\ HeapFrame

HeapSend ==
  /\ heap.call.pc = "suspended"
  /\ heap' = sendOn(heap)
  /\ HeapFrame

\* the reply of the cloud: the call is over
HeapReply ==
  /\ heap.call.pc = "sent"
  /\ heap' = [heap EXCEPT !.call.pc = "done"]
  /\ HeapFrame

SnapshotInit ==
  /\ FlowUnused
  /\ options = configure([applicationKey |-> "key", language |-> "en_US"])
  /\ capturedStrokes = <<>>
  /\ \E hasCtx \in BOOLEAN : heap = FreshHeap(hasCtx)
  /\ RasterUnused /\ SurfaceUnused /\ OcrUnused /\ FailureUnused
  /\ SerializerUnused /\ CredentialsUnused /\ DebugUnused /\ CaptureUnused
  /\ ConfigUnused /\ OverlappingUnused

SnapshotNext ==
  \/ \E e \in PointerEvents : HeapPointerDown(e) \/ HeapPointerMove(e)
  \/ HeapPointerUp
  \/ HeapClearCanvas
  \/ HeapRunOcr
  \/ HeapSend
  \/ HeapReply

SnapshotSpec == SnapshotInit /\ [][SnapshotNext]_vars

---------------------------------------------------------------------------
(* The rasterizer called on a canvas.                                      *)

GetPaddedImage ==
  /\ Len(raster.out) = 0
  /\ raster' = [raster EXCEPT
                  !.out = <<getPaddedImage(raster.canvas, raster.dpr, raster.tCtx)>>]
  /\ UNCHANGED <<settings, options, capturedStrokes, cursor, calls, svcArgs, svcRes,
                 serVars, credVars, debug, capVars, heap, surface, ocr, failure, config, overlapping>>

RasterInit ==
  /\ FlowUnused
  /\ options = NullOptions
  /\ capturedStrokes = <<>>
  /\ raster \in [canvas : CanvasRows, dpr : {1, 2}, tCtx : BOOLEAN, out : {<<>>}]
  /\ HeapUnused /\ SurfaceUnused /\ OcrUnused /\ FailureUnused
  /\ SerializerUnused /\ CredentialsUnused /\ DebugUnused /\ CaptureUnused
  /\ ConfigUnused /\ OverlappingUnused

RasterNext == GetPaddedImage

RasterSpec == RasterInit /\ [][RasterNext]_vars

---------------------------------------------------------------------------
(* The surface under strokes, resizes and image loads.                     *)

SurfaceFrame ==
  UNCHANGED <<settings, options, capturedStrokes, cursor, calls, svcArgs, svcRes,
              serVars, credVars, debug, capVars, heap, raster, ocr, failure, config, overlapping>>

Rects == {[width |-> 0, height |-> 0], [width |-> 4, height |-> 3],
          [width |-> 6, height |-> 3]}

SurfaceDraw ==
  /\ Cardinality(surface.drawn) < MaxMarks
  /\ surface.hasCtx
  /\ surface' = drawStroke(surface, Cardinality(surface.drawn) + 1)
  /\ SurfaceFrame

SurfaceResize(rect, dpr) ==
  /\ surface.resizes < MaxResizes
  /\ surface' = resizeCanvas(surface, rect, dpr)
  /\ SurfaceFrame

SurfaceLoad(img) ==
  /\ surface' = restore(surface, img)
  /\ SurfaceFrame

SurfaceInit ==
  /\ FlowUnused
  /\ options = NullOptions
  /\ capturedStrokes = <<>>
  /\ \E hasCtx \in BOOLEAN : surface = FreshSurface(hasCtx)
  /\ HeapUnused /\ RasterUnused /\ OcrUnused /\ FailureUnused
  /\ SerializerUnused /\ CredentialsUnused /\ DebugUnused /\ CaptureUnused
  /\ ConfigUnused /\ OverlappingUnused

SurfaceNext ==
  \/ SurfaceDraw
  \/ \E rect \in Rects, dpr \in {1, 2} : SurfaceResize(rect, dpr)
  \/ \E img \in surface.pending : SurfaceLoad(img)

SurfaceSpec == SurfaceInit /\ [][SurfaceNext]_vars

---------------------------------------------------------------------------
(* The OCR service under calls that may overlap.                           *)

OcrFrame ==
  UNCHANGED <<settings, options, capturedStrokes, cursor, calls, svcArgs, svcRes,
              serVars, credVars, debug, capVars, heap, raster, surface, failure, config, overlapping>>

At(k, pc) == ocr.calls[k].pc = pc

OcrCall(k, op, opts) ==
  /\ At(k, "idle")
  /\ \A j \in 1..(k - 1) : ~At(j, "idle")
  /\ ocr.started < MaxOcrCalls
  /\ ocr' = ocrCall(ocr, k, op, opts)
  /\ OcrFrame

OcrWorkerTerminated(k) ==
  /\ At(k, "workerTerminate")
  /\ ocr' = workerTerminated(ocr, k)
  /\ OcrFrame

OcrAssetsRead(k, found) ==
  /\ At(k, "assets")
  /\ ocr' = assetsRead(ocr, k, found)
  /\ OcrFrame

OcrWorkerCreated(k, ok) ==
  /\ At(k, "createWorker")
  /\ ocr' = workerCreated(ocr, k, ok)
  /\ OcrFrame

OcrParametersSet(k, ok) ==
  /\ At(k, "setParameters")
  /\ ocr' = parametersSet(ocr, k, ok)
  /\ OcrFrame

OcrInitializeFailed(k) ==
  /\ At(k, "log")
  /\ ocr' = initializeFailed(ocr, k)
  /\ OcrFrame

OcrRecognized(k, ok) ==
  /\ At(k, "recognize")
  /\ ocr' = recognized(ocr, k, ok)
  /\ OcrFrame

OcrRecognizeFailed(k) ==
  /\ At(k, "logRecognize")
  /\ ocr' = settle(ocr, k, FALSE)
  /\ OcrFrame

OcrInit ==
  /\ FlowUnused
  /\ options = NullOptions
  /\ capturedStrokes = <<>>
  /\ ocr = FreshOcr
  /\ HeapUnused /\ RasterUnused /\ SurfaceUnused /\ FailureUnused
  /\ SerializerUnused /\ CredentialsUnused /\ DebugUnused /\ CaptureUnused
  /\ ConfigUnused /\ OverlappingUnused

OcrNext ==
  \E k \in OcrSlots :
    \/ \E op \in {"initialize", "recognize"}, opts \in OcrOptions :
         OcrCall(k, op, opts)
    \/ OcrCall(k, "terminate", NoOcrCall.options)
    \/ OcrWorkerTerminated(k)
    \/ \E found \in BOOLEAN : OcrAssetsRead(k, found)
    \/ \E ok \in BOOLEAN : OcrWorkerCreated(k, ok)
    \/ \E ok \in BOOLEAN : OcrParametersSet(k, ok)
    \/ OcrInitializeFailed(k)
    \/ \E ok \in BOOLEAN : OcrRecognized(k, ok)
    \/ OcrRecognizeFailed(k)

OcrSpec == OcrInit /\ [][OcrNext]_vars

---------------------------------------------------------------------------
(* The adapter's request on a response that may not be a success.          *)

FailureFrame ==
  UNCHANGED <<settings, options, capturedStrokes, cursor, calls, svcArgs, svcRes,
              serVars, credVars, debug, capVars, heap, raster, surface, ocr, config, overlapping>>

RequestStrokes ==
  /\ failure.path = "strokes"
  /\ ~failure.called
  /\ failure' = [failure EXCEPT !.called = TRUE, !.error = requestStrokes(failure.net)]
  /\ FailureFrame

RequestBitmap ==
  /\ failure.path = "bitmap"
  /\ ~failure.called
  /\ failure' = [failure EXCEPT !.called = TRUE, !.error = requestBitmap(failure.net)]
  /\ FailureFrame

FailureInit ==
  /\ FlowUnused
  /\ options = NullOptions
  /\ capturedStrokes = <<>>
  /\ failure \in [path : {"strokes", "bitmap"}, net : FailureNets, called : {FALSE},
                  error : {NoFailure}]
  /\ HeapUnused /\ RasterUnused /\ SurfaceUnused /\ OcrUnused
  /\ SerializerUnused /\ CredentialsUnused /\ DebugUnused /\ CaptureUnused
  /\ ConfigUnused /\ OverlappingUnused

FailureNext == RequestStrokes \/ RequestBitmap

FailureSpec == FailureInit /\ [][FailureNext]_vars

---------------------------------------------------------------------------
(* The settings tab: the key fields and the language field edited in any   *)
(* order; each handler assigns the setting, awaits saveSettings and, for   *)
(* the key fields, calls updateMyScriptConfig.                             *)

ConfigFrame ==
  UNCHANGED <<capturedStrokes, cursor, calls, svcArgs, svcRes, serVars, credVars,
              debug, capVars, heap, raster, surface, ocr, failure, overlapping>>

ChangeApplicationKey(value) ==
  /\ config.changes < MaxChanges
  /\ settings' = [settings EXCEPT !.myScriptApplicationKey = value]
  /\ config' = [config EXCEPT !.changes = @ + 1, !.keySaves = @ + 1]
  /\ UNCHANGED options
  /\ ConfigFrame

ChangeHmacKey(value) ==
  /\ config.changes < MaxChanges
  /\ settings' = [settings EXCEPT !.myScriptHmacKey = value]
  /\ config' = [config EXCEPT !.changes = @ + 1, !.keySaves = @ + 1]
  /\ UNCHANGED options
  /\ ConfigFrame

ChangeLanguage(value) ==
  /\ config.changes < MaxChanges
  /\ settings' = languageChanged(settings, value)
  /\ config' = [config EXCEPT !.changes = @ + 1, !.languageSaves = @ + 1]
  /\ UNCHANGED options
  /\ ConfigFrame

\* saveSettings of a key handler settles; a rejection ends the handler
KeySaved(ok) ==
  /\ config.keySaves > 0
  /\ config' = [config EXCEPT !.keySaves = @ - 1, !.saveFailed = @ \/ ~ok]
  /\ options' = IF ok THEN updateMyScriptConfig(options, settings) ELSE options
  /\ UNCHANGED settings
  /\ ConfigFrame

\* saveSettings of a language handler settles
LanguageSaved(ok) ==
  /\ config.languageSaves > 0
  /\ config' = [config EXCEPT !.languageSaves = @ - 1, !.saveFailed = @ \/ ~ok]
  /\ UNCHANGED <<settings, options>>
  /\ ConfigFrame

\* plugin load, then the settings tab
ConfigInit ==
  /\ settings \in {[DEFAULT_SETTINGS EXCEPT !.myScriptApplicationKey = k] :
                     k \in {"", "key"}}
  /\ options = updateMyScriptConfig(NullOptions, settings)
  /\ capturedStrokes = <<>>
  /\ cursor = "crosshair"
  /\ calls = [c \in CallIds |-> NoCall]
  /\ svcArgs = [op |-> "none", strokes |-> <<>>, net |-> NetThrew]
  /\ svcRes = Pending
  /\ config = NoConfig
  /\ HeapUnused /\ RasterUnused /\ SurfaceUnused /\ OcrUnused /\ FailureUnused
  /\ SerializerUnused /\ CredentialsUnused /\ DebugUnused /\ CaptureUnused
  /\ OverlappingUnused

ConfigNext ==
  \/ \E value \in {"", "key", "key2"} : ChangeApplicationKey(value)
  \/ \E value \in {"", "hmac"} : ChangeHmacKey(value)
  \/ \E value \in {"", "en_US", "fr_FR"} : ChangeLanguage(value)
  \/ \E ok \in BOOLEAN : KeySaved(ok) \/ LanguageSaved(ok)

ConfigSpec == ConfigInit /\ [][ConfigNext]_vars

---------------------------------------------------------------------------
(* Overlapping recognitions: runOcr called again while a call is in        *)
(* flight, each call going through the steps of the recognition flow.      *)

OverlapFrame ==
  UNCHANGED <<settings, options, capturedStrokes, calls, svcArgs, svcRes, serVars,
              credVars, debug, capVars, heap, raster, surface, ocr, failure, config>>

OverlapCommit(c, call) ==
  /\ overlapping' = [overlapping EXCEPT ![c] = call]
  /\ cursor' = CursorAfter(call, cursor)
  /\ OverlapFrame

\* the second click comes after the first
OverlapStart(c) ==
  /\ overlapping[c].pc = "idle"
  /\ \A b \in Callers : b < c => overlapping[b].pc # "idle"
  /\ LET next == runOcrEntry(overlapping[c], settings, options, capturedStrokes, cursor)
     IN /\ overlapping' = [overlapping EXCEPT ![c] = next]
        /\ cursor' = CursorAfter(next, "wait")
  /\ OverlapFrame

OverlapStrokeReply(c) ==
  /\ overlapping[c].pc = "awaitStrokes"
  /\ \E net \in StrokeNets :
       OverlapCommit(c, onStrokesSettled(overlapping[c], settings, options, net))

OverlapBitmapReply(c) ==
  /\ overlapping[c].pc = "awaitBitmap"
  /\ \E net \in BitmapNets :
       OverlapCommit(c, onBitmapSettled(overlapping[c], options, net))

OverlapLocalReply(c) ==
  /\ overlapping[c].pc = "awaitLocal"
  /\ \E r \in LocalResults : OverlapCommit(c, onLocalSettled(overlapping[c], r))

OverlapClipboardReply(c) ==
  /\ overlapping[c].pc = "awaitClipboard"
  /\ \E ok \in BOOLEAN : OverlapCommit(c, onClipboardSettled(overlapping[c], ok))

OverlapInit ==
  /\ settings \in {[DEFAULT_SETTINGS EXCEPT !.ocrEngine = e,
                                             !.myScriptApplicationKey = "key"] :
                     e \in {"tesseract", "myscript"}}
  /\ options = updateMyScriptConfig(NullOptions, settings)
  /\ capturedStrokes = SampleStrokes(1)
  /\ cursor = "crosshair"
  /\ calls = [c \in CallIds |-> NoCall]
  /\ svcArgs = [op |-> "none", strokes |-> <<>>, net |-> NetThrew]
  /\ svcRes = Pending
  /\ overlapping = [c \in Callers |-> NoCall]
  /\ HeapUnused /\ RasterUnused /\ SurfaceUnused /\ OcrUnused /\ FailureUnused
  /\ SerializerUnused /\ CredentialsUnused /\ DebugUnused /\ CaptureUnused
  /\ ConfigUnused

OverlapNext ==
  \E c \in Callers :
    \/ OverlapStart(c)
    \/ OverlapStrokeReply(c)
    \/ OverlapBitmapReply(c)
    \/ OverlapLocalReply(c)
    \/ OverlapClipboardReply(c)

OverlapSpec == OverlapInit /\ [][OverlapNext]_vars

---------------------------------------------------------------------------
(* Properties of the recognition flow (checked under Spec).                *)

Started(c) == calls[c].pc # "idle"
Finished(c) == calls[c].pc = "done"
StrokeEngine == settings.ocrEngine = "myscript"
ReqsTo(c, to) == {i \in DOMAIN calls[c].reqs : calls[c].reqs[i].to = to}

\* the stroke path was taken and its request failed
StrokePathFailed(c) ==
  /\ StrokeEngine /\ settings.captureStrokes
  /\ Len(capturedStrokes) > 0 /\ isConfigured(options)
  /\ calls[c].strokeRes.k = "throw"

\* C1: when the stroke request fails and fallbackToBitmap is off, runOcr ends in
\* the failure outcome, reporting the stroke-path error.
C1_StrokeErrorSurfaced ==
  \A c \in CallIds :
    (Finished(c) /\ StrokePathFailed(c) /\ ~settings.fallbackToBitmap)
      => /\ calls[c].outcome = "failed"
         /\ calls[c].err = calls[c].strokeRes.e

\* the stroke request failed, the fallback is on and the bitmap request succeeded
FellBack(c) ==
  /\ Finished(c) /\ StrokePathFailed(c) /\ settings.fallbackToBitmap
  /\ calls[c].bitmapRes.k = "ok"

\* C2 as stated: after a successful fallback runOcr returns exactly the bitmap-path
\* result and reports no error.
C2_ResultIsBitmapResult ==
  \A c \in CallIds :
    FellBack(c) => /\ Str(calls[c].ret) = calls[c].bitmapRes.v
                   /\ calls[c].outcome # "failed"

\* C2 amended: after a successful fallback runOcr never reports the stroke-path
\* error; it returns the bitmap text when that is a non-blank string and the
\* clipboard write succeeds, and the empty result when the bitmap text is blank.
C2_FallbackHidesStrokeError ==
  \A c \in CallIds :
    FellBack(c) =>
      LET v == calls[c].bitmapRes.v IN
      /\ calls[c].err # calls[c].strokeRes.e
      /\ calls[c].outcome = "failed" => calls[c].err.from \in {"view", "clipboard"}
      /\ (v.t = "str" /\ NonBlank(v.s) /\ calls[c].clip = "ok")
           => calls[c].outcome = "copied" /\ calls[c].ret = v.s
      /\ (v.t = "str" /\ ~NonBlank(v.s))
           => calls[c].outcome = "notext" /\ calls[c].ret = <<>>

C2_Witness ==
  \E c \in CallIds :
    /\ FellBack(c)
    /\ calls[c].outcome = "copied"
    /\ calls[c].ret = <<"b">>
    /\ \E i \in DOMAIN calls[c].notices :
         calls[c].notices[i] = NoticeOf("MyScript recognition failed", calls[c].strokeRes.e)

\* C3: with the stroke engine selected and no credentials, runOcr ends with the
\* configuration error and calls no adapter, whatever the other settings are.
C3_ConfigurationError ==
  \A c \in CallIds :
    (Started(c) /\ StrokeEngine /\ ~isConfigured(options))
      => /\ Finished(c)
         /\ calls[c].outcome = "failed"
         /\ calls[c].err = Error("MyScript not configured (view)", "view")
         /\ calls[c].reqs = <<>>

\* C4 as stated: with the stroke engine selected, runOcr on an empty StrokeSet
\* sends no request and ends with the empty result.
C4_EmptySendsNothing ==
  \A c \in CallIds :
    (Started(c) /\ StrokeEngine /\ capturedStrokes = <<>>)
      => /\ calls[c].reqs = <<>>
         /\ Finished(c) /\ calls[c].outcome = "notext"

\* C4 amended: with credentials present, recognizeStrokes([]) resolves to the empty
\* text and sends nothing; runOcr on an empty StrokeSet raises no error for the
\* empty input either, but it sends a bitmap request, whose reply decides it.
C4_EmptyShortCircuit ==
  /\ isConfigured(options)
       => \A net \in SomeNets : recognizeStrokes(options, <<>>, net) = Resolved(Str(<<>>))
  /\ \A c \in CallIds :
       (Started(c) /\ StrokeEngine /\ isConfigured(options) /\ capturedStrokes = <<>>)
         => /\ calls[c].strokeRes = Pending
            /\ ReqsTo(c, "bitmap") # {}
            /\ Finished(c) => /\ calls[c].bitmapRes.k # "pending"
                              /\ calls[c].outcome = "failed"
                                   => calls[c].err.from \in {"bitmap", "view", "clipboard"}

C4_Witness ==
  \E c \in CallIds :
    /\ Finished(c) /\ StrokeEngine /\ settings.captureStrokes
    /\ isConfigured(options) /\ capturedStrokes = <<>>
    /\ calls[c].bitmapRes.sent
    /\ calls[c].outcome = "notext"

\* C5: with the stroke engine selected and credentials present, runOcr on an empty
\* StrokeSet rasterizes once, calls recognizeBitmap once and never recognizeStrokes.
C5_EmptyUsesBitmap ==
  \A c \in CallIds :
    (Started(c) /\ StrokeEngine /\ isConfigured(options) /\ capturedStrokes = <<>>)
      => /\ calls[c].rasters = 1
         /\ calls[c].reqs = <<Request("bitmap", 0, FALSE, FALSE, "")>>
         /\ calls[c].strokeRes.k = "pending"

C5_Witness ==
  \E c \in CallIds :
    /\ Finished(c) /\ StrokeEngine /\ settings.captureStrokes
    /\ isConfigured(options) /\ capturedStrokes = <<>>
    /\ calls[c].rasters = 1
    /\ calls[c].outcome = "copied"

\* what a finished call shows for an adapter result r
OutcomeFollows(c, r) ==
  /\ r.k = "throw" => calls[c].outcome = "failed" /\ calls[c].err = r.e
  /\ (r.k = "ok" /\ r.v.t = "str" /\ ~NonBlank(r.v.s))
       => calls[c].outcome = "notext" /\ calls[c].ret = <<>>
  /\ (r.k = "ok" /\ r.v.t = "str" /\ NonBlank(r.v.s))
       => \/ calls[c].clip = "ok" /\ calls[c].outcome = "copied" /\ calls[c].ret = r.v.s
          \/ calls[c].clip = "fail" /\ calls[c].outcome = "failed"

\* C6: with the local engine selected, runOcr rasterizes once and calls the local
\* adapter once with the configured mode and language, sends nothing to the cloud,
\* and its outcome follows from the local result alone.
C6_LocalEngineOnly ==
  \A c \in CallIds :
    (Started(c) /\ settings.ocrEngine = "tesseract")
      => /\ calls[c].rasters = 1
         /\ calls[c].reqs = <<Request("local", 0, FALSE, settings.tesseractHandwritingMode,
                                      settings.tesseractLanguage)>>
         /\ calls[c].strokeRes = Pending /\ calls[c].bitmapRes = Pending
         /\ Finished(c) => /\ calls[c].localRes.k # "pending"
                           /\ OutcomeFollows(c, calls[c].localRes)

C6_Witness ==
  \E c \in CallIds :
    /\ Finished(c) /\ settings.ocrEngine = "tesseract"
    /\ isConfigured(options) /\ Len(capturedStrokes) > 0 /\ settings.captureStrokes
    /\ ~settings.tesseractHandwritingMode /\ settings.tesseractLanguage = "fra"
    /\ calls[c].outcome = "copied" /\ calls[c].ret = <<"c", "\n">>

\* C7: a call sends at most one bitmap retry, only after a failed stroke request
\* with fallbackToBitmap on, and then exactly one; a failed bitmap request ends the
\* call with that failure and nothing is sent after it.
C7_RetryOnceViaBitmap ==
  \A c \in CallIds :
    LET r == calls[c].reqs IN
    /\ Cardinality(ReqsTo(c, "bitmap")) <= 1
    /\ \A i \in DOMAIN r :
         r[i].retry => /\ i = 2 /\ r[i].to = "bitmap" /\ r[1].to = "strokes"
                       /\ calls[c].strokeRes.k = "throw"
                       /\ settings.fallbackToBitmap
    /\ (calls[c].strokeRes.k = "throw" /\ settings.fallbackToBitmap)
         => Len(r) = 2 /\ r[2].retry
    /\ calls[c].bitmapRes.k = "throw"
         => /\ Finished(c) /\ calls[c].outcome = "failed"
            /\ calls[c].err = calls[c].bitmapRes.e
            /\ r[Len(r)].to = "bitmap"

C7_Witness ==
  \E c \in CallIds :
    /\ Finished(c)
    /\ calls[c].strokeRes.k = "throw" /\ calls[c].bitmapRes.k = "throw"
    /\ Len(calls[c].reqs) = 2 /\ calls[c].reqs[2].retry

---------------------------------------------------------------------------
(* Properties of the cloud adapter (checked under AdapterSpec).            *)

\* recognizeStrokes has parsed a 200 reply
Parsed ==
  /\ svcArgs.op = "strokes" /\ svcRes.k # "pending" /\ svcRes.sent
  /\ svcArgs.net.k = "resp" /\ svcArgs.net.status = 200

Json == svcArgs.net.json
SameResult(r, q) == r.k = q.k /\ r.v = q.v /\ r.e = q.e

IsLabelList(v) == v.t = "arr" /\ \A i \in 1..Len(v.a) : v.a[i].t = "obj"
IsText(v) == v.t \in {"undef", "str"}

\* every member the parser reads is absent or of the documented type
WellTyped(j) ==
  /\ j.t = "obj"
  /\ IsText(j.label) /\ IsText(TextLabel(j.text))
  /\ ResultTextLines(j.result).t = "undef" \/ IsLabelList(ResultTextLines(j.result))
  /\ j.words.t = "undef" \/ IsLabelList(j.words)

\* the labels of an array's elements, '' for an element without one
Labels(v) == [i \in 1..Len(v.a) |-> IF v.a[i].label.t = "str" THEN v.a[i].label.s ELSE <<>>]

RECURSIVE Concat(_)
Concat(parts) == IF Len(parts) = 0 THEN <<>> ELSE Head(parts) \o Concat(Tail(parts))

\* texts with sep between neighbours
Interleaved(texts, sep) ==
  Concat([i \in 1..(2 * Len(texts) - 1) |-> IF i % 2 = 1 THEN texts[(i + 1) \div 2] ELSE sep])

\* the result the extractor of rank i gives: 0 is "none matched"
ExtractBy(i, j) ==
  CASE i = 1 -> Resolved(j.label)
    [] i = 2 -> Resolved(TextLabel(j.text))
    [] i = 3 -> MapLabelsJoin(ResultTextLines(j.result), <<"\n">>, "stroke")
    [] i = 4 -> MapLabelsJoin(j.words, <<" ">>, "stroke")
    [] OTHER -> Resolved(Str(<<>>))

Member(i, j) ==
  CASE i = 1 -> j.label
    [] i = 2 -> TextLabel(j.text)
    [] i = 3 -> ResultTextLines(j.result)
    [] OTHER -> j.words

Lowest(S) == IF S = {} THEN 0 ELSE CHOOSE i \in S : \A k \in S : i <= k

\* C8 as stated: the result comes from the first member that is present, even
\* when its value is an empty string or an empty array.
C8_FirstPresentWins ==
  (Parsed /\ WellTyped(Json))
    => SameResult(svcRes, ExtractBy(Lowest({i \in 1..4 : Member(i, Json).t # "undef"}), Json))

\* a member the chain accepts: truthy, and for words a non-empty array
Accepted(i, j) ==
  /\ Truthy(Member(i, j))
  /\ i = 4 => Member(i, j).t = "arr" /\ Len(Member(i, j).a) > 0

\* C8 amended: the result comes from the first member, in the order label,
\* text.label, result.textLines, words, whose value is truthy (for words: a
\* non-empty array); an empty-string label is passed over like an absent one.
C8_FirstTruthyWins ==
  (Parsed /\ Json.t = "obj")
    => SameResult(svcRes, ExtractBy(Lowest({i \in 1..4 : Accepted(i, Json)}), Json))

C8_Witness ==
  /\ Parsed /\ WellTyped(Json)
  /\ Json.label = Str(<<>>)
  /\ TextLabel(Json.text) = Str(<<"c">>)
  /\ Truthy(Json.words)
  /\ svcRes.v = Str(<<"c">>)

\* no member the parser reads has the documented type
NoRecognisedShape(j) ==
  \/ j.t # "obj"
  \/ /\ j.label.t # "str" /\ TextLabel(j.text).t # "str"
     /\ ResultTextLines(j.result).t # "arr" /\ j.words.t # "arr"

\* C9: a 200 reply of no recognised shape resolves to the empty string.
C9_UnrecognisedIsEmpty ==
  (Parsed /\ NoRecognisedShape(Json))
    => svcRes.k = "ok" /\ svcRes.v = Str(<<>>)

\* C10: when the textLines or the words extractor decides the reply, the result is
\* the elements' labels in array order, joined by "\n" for textLines and by one
\* space for words.
C10_ArrayLabelsJoined ==
  (Parsed /\ Json.t = "obj" /\ ~Truthy(Json.label) /\ ~Truthy(TextLabel(Json.text)))
    => LET lines == ResultTextLines(Json.result) IN
       /\ IsLabelList(lines)
            => svcRes.k = "ok" /\ svcRes.v = Str(Interleaved(Labels(lines), <<"\n">>))
       /\ (~Truthy(lines) /\ IsLabelList(Json.words) /\ Len(Json.words.a) > 0)
            => svcRes.k = "ok" /\ svcRes.v = Str(Interleaved(Labels(Json.words), <<" ">>))

C10_Witness ==
  /\ Parsed
  /\ ResultTextLines(Json.result) = Arr(<<ItemObj(Str(<<"a">>)), ItemObj(Str(<<"b">>))>>)
  /\ Json.words = Arr(<<ItemObj(Str(<<"b">>)), ItemObj(Str(<<"a">>))>>)
  /\ svcRes.v = Str(<<"a", "\n", "b">>)


\* recognizeBitmap has parsed a 200 reply
BitmapParsed ==
  /\ svcArgs.op = "bitmap" /\ svcRes.k # "pending" /\ svcRes.sent
  /\ svcArgs.net.k = "resp" /\ svcArgs.net.status = 200

\* the reply carries the member of rank i and no other
OnlyMember(i, j) ==
  /\ j.t = "obj"
  /\ \A k \in 1..4 : Member(k, j).t # "undef" <=> k = i

\* C32: a 200 reply to recognizeBitmap carrying only a top-level label, only
\* a textLines array or only a words array resolves to the corresponding
\* text, as the same reply does on the stroke path.
C32_BitmapNormalizedAlike ==
  BitmapParsed =>
    /\ (OnlyMember(1, Json) /\ Json.label.t = "str")
         => svcRes.k = "ok" /\ svcRes.v = Json.label
    /\ (OnlyMember(3, Json) /\ IsLabelList(ResultTextLines(Json.result)))
         => /\ svcRes.k = "ok"
            /\ svcRes.v = Str(Interleaved(Labels(ResultTextLines(Json.result)), <<"\n">>))
    /\ (OnlyMember(4, Json) /\ IsLabelList(Json.words) /\ Len(Json.words.a) > 0)
         => /\ svcRes.k = "ok"
            /\ svcRes.v = Str(Interleaved(Labels(Json.words), <<" ">>))

---------------------------------------------------------------------------
(* Properties of the serializer (checked under SerializerSpec).            *)

\* the wire records of the k-th document produced
Wire(k) == serOut[k].strokeGroups[1].strokes

\* the points of the i-th stroke handed to the serializer
PointsIn(i) == serIn.strokes[i].points

\* v tenths rounded to r: the nearest integer, the upper one on a tie
RoundsHalfUp(v, r) == 10 * r - 5 <= v /\ v < 10 * r + 5

\* C11: a wire record carries a pressure array exactly when the first point
\* of its stroke has a defined pressure; the array then has one entry per
\* point, the point's pressure or 0.5 where the point has none; a stroke
\* whose first point lacks pressure gets no array, whatever its later points
C11_PressurePresence ==
  \A k \in 1..Len(serOut) : \A i \in 1..Len(serIn.strokes) :
    LET pts == PointsIn(i)
        w == Wire(k)[i]
        firstHas == Len(pts) > 0 /\ pts[1].p.t = "num"
    IN /\ firstHas <=> w.p.t = "arr"
       /\ ~firstHas => w.p = Undef
       /\ firstHas =>
            /\ Len(w.p.a) = Len(pts)
            /\ \A j \in 1..Len(pts) :
                 w.p.a[j] = IF pts[j].p.t = "num" THEN pts[j].p.n ELSE 5

\* a stroke whose first point has no pressure and whose second has one
C11_Witness ==
  /\ Len(serOut) > 0
  /\ \E i \in 1..Len(serIn.strokes) :
       /\ Len(PointsIn(i)) = 2
       /\ PointsIn(i)[1].p.t = "undef"
       /\ PointsIn(i)[2].p.t = "num"
       /\ Wire(1)[i].p = Undef

\* C12: every x and y of a wire record is the point's coordinate rounded to
\* the nearest integer, halves going up, and every t is the point's
\* timestamp as it was given
C12_RoundHalfUp ==
  \A k \in 1..Len(serOut) : \A i \in 1..Len(serIn.strokes) :
    \A j \in 1..Len(PointsIn(i)) :
      /\ RoundsHalfUp(PointsIn(i)[j].x, Wire(k)[i].x[j])
      /\ RoundsHalfUp(PointsIn(i)[j].y, Wire(k)[i].y[j])
      /\ Wire(k)[i].t[j] = PointsIn(i)[j].t

\* (10.5, -2.5) serialized as (11, -2), next to (10.7, 20.3) as (11, 20)
C12_Witness ==
  /\ Len(serOut) > 0
  /\ \E i \in 1..Len(serIn.strokes) : \E j, h \in 1..Len(PointsIn(i)) :
       /\ PointsIn(i)[j].x = 105 /\ PointsIn(i)[j].y = -25
       /\ Wire(1)[i].x[j] = 11 /\ Wire(1)[i].y[j] = -2
       /\ PointsIn(i)[h].x = 107 /\ PointsIn(i)[h].y = 203
       /\ Wire(1)[i].x[h] = 11 /\ Wire(1)[i].y[h] = 20

\* C13: the document has one wire record per stroke, in stroke order; the
\* i-th, counted from zero, is named stroke-<i>, has pointer type PEN and
\* pointer id 1, and its x, y and t arrays have one entry per point, in
\* point order
C13_OneRecordPerStroke ==
  \A k \in 1..Len(serOut) :
    /\ Len(serOut[k].strokeGroups) = 1
    /\ Len(Wire(k)) = Len(serIn.strokes)
    /\ \A i \in 1..Len(serIn.strokes) :
         LET w == Wire(k)[i] IN
         /\ w.id = [prefix |-> "stroke-", index |-> i - 1]
         /\ w.pointerType = "PEN"
         /\ w.pointerId = 1
         /\ Len(w.x) = Len(PointsIn(i))
         /\ Len(w.y) = Len(PointsIn(i))
         /\ Len(w.t) = Len(PointsIn(i))
         /\ \A j \in 1..Len(PointsIn(i)) :
              /\ w.t[j] = PointsIn(i)[j].t
              /\ RoundsHalfUp(PointsIn(i)[j].x, w.x[j])
              /\ RoundsHalfUp(PointsIn(i)[j].y, w.y[j])

\* two different strokes serialized
C13_Witness ==
  /\ Len(serOut) > 0
  /\ Len(serIn.strokes) = 2
  /\ serIn.strokes[1] # serIn.strokes[2]
  /\ Len(PointsIn(1)) = 1 /\ Len(PointsIn(2)) = 1
  /\ Wire(1)[2].id.index = 1

\* C14: an empty StrokeSet gives a document whose one stroke group has no
\* strokes and whose configuration names the language and asks for the
\* character- and word-level text export
C14_EmptyStrokeSet ==
  \A k \in 1..Len(serOut) :
    Len(serIn.strokes) = 0 =>
      /\ Len(serOut[k].strokeGroups) = 1
      /\ Len(Wire(k)) = 0
      /\ serOut[k].contentType = "Text"
      /\ serOut[k].configuration.lang =
           (IF serIn.language = Omitted THEN "en_US" ELSE serIn.language)
      /\ serOut[k].configuration.export.jiix.text.chars
      /\ serOut[k].configuration.export.jiix.text.words

\* the empty StrokeSet serialized for a language the caller names
C14_Witness ==
  /\ Len(serOut) > 0
  /\ Len(serIn.strokes) = 0
  /\ serIn.language = "fr_FR"

---------------------------------------------------------------------------
(* Properties of the credentials (checked under CredentialSpec).           *)

UserKeysComplete(opts) == opts.applicationKey # "" /\ opts.hmacKey # ""
UserKeysPresent(opts) == opts.applicationKey # "" \/ opts.hmacKey # ""
BuildKeysComplete == env.MYSCRIPT_APPLICATION_KEY # "" /\ env.MYSCRIPT_HMAC_KEY # ""

\* C16 as stated: isConfigured() is true exactly when every credential
\* field the adapter holds is non-empty (the application key, and the HMAC
\* key in the signing variant), whatever else is the case
C16_HeldCredentialsOnly ==
  /\ isConfigured(options) <=> options.applicationKey # ""
  /\ hmacIsConfigured(hmacOptions, env) <=> UserKeysComplete(hmacOptions)

\* C16: isConfigured() of the adapter is true exactly when the application
\* key it holds is non-empty, so it is false before configure and after
\* configure with an empty key; isConfigured() of the signing variant is
\* true exactly when both keys it holds are non-empty or both keys of the
\* build environment are
C16_ConfiguredByKeys ==
  /\ isConfigured(options) <=> options.applicationKey # ""
  /\ ~options.set => ~isConfigured(options)
  /\ hmacIsConfigured(hmacOptions, env) <=>
       (UserKeysComplete(hmacOptions) \/ BuildKeysComplete)

\* the adapter configured with an empty key, the signing variant never
\* configured while the environment has both keys
C16_Witness ==
  /\ options.set /\ options.applicationKey = ""
  /\ ~hmacOptions.set
  /\ BuildKeysComplete
  /\ hmacIsConfigured(hmacOptions, env)

---------------------------------------------------------------------------
(* Properties of the diagnostic files (checked under DebugSpec).           *)

\* the file holds the application key in full
HoldsApplicationKey(file, key) ==
  /\ key # ""
  /\ file.data.requestHeaders.set
  /\ file.data.requestHeaders.applicationKey = key

\* C18: no file written by recognizeStrokes through writeDebugFile, or by
\* saveDebugImage, holds the application key, whether debug files are
\* switched on or off
C18_NoKeyInFiles ==
  \A i \in 1..Len(debug.files) :
    ~HoldsApplicationKey(debug.files[i], options.applicationKey)


---------------------------------------------------------------------------
(* Properties of the capture (checked under CaptureSpec).                  *)

\* the pressure of an event as the view is to record it, in tenths
Recorded(reported) ==
  IF reported = Undef \/ reported = Num(0) THEN Num(5) ELSE reported

\* C19: right after a pointer-down the view is capturing and its current
\* stroke has exactly one point: at the event's position relative to the
\* canvas, with t = 0 and with the reported pressure, or 0.5 when none or
\* zero was reported; every point held by the view has a pressure above 0
\* and at most 1
C19_PointerDownStartsStroke ==
  /\ pointer.last.type = "start" =>
       /\ view.isDrawing
       /\ view.currentStroke.set
       /\ view.currentStroke.points =
            <<[x |-> pointer.last.e.clientX - pointer.last.e.left,
               y |-> pointer.last.e.clientY - pointer.last.e.top,
               t |-> 0,
               p |-> Recorded(pointer.last.e.pressure)]>>
  /\ \A i \in 1..Len(capturedStrokes) : \A j \in 1..Len(capturedStrokes[i].points) :
       LET p == capturedStrokes[i].points[j].p IN
       p.t = "num" /\ 0 < p.n /\ p.n <= 10
  /\ \A j \in 1..Len(view.currentStroke.points) :
       LET p == view.currentStroke.points[j].p IN
       p.t = "num" /\ 0 < p.n /\ p.n <= 10

\* a second stroke begun by a pointer-down that reports zero pressure, on a
\* canvas whose corner is not the corner of the window
C19_Witness ==
  /\ pointer.last.type = "start"
  /\ pointer.last.e.pressure = Num(0)
  /\ pointer.last.e.left = 20
  /\ Len(capturedStrokes) = 1
  /\ view.currentStroke.points[1].p = Num(5)
  /\ view.currentStroke.points[1].x = 10

\* C20: a pointer-move reaching the view while it is not capturing leaves
\* the current stroke, the StrokeSet and the canvas as they were; one
\* reaching it while it is capturing appends exactly one point to the
\* current stroke and leaves the sealed strokes as they were
C20_MoveOnlyWhileCapturing ==
  [][pointer'.events > pointer.events /\ pointer'.last.type = "move" =>
       IF ~view.isDrawing
       THEN /\ view'.currentStroke = view.currentStroke
            /\ capturedStrokes' = capturedStrokes
            /\ view'.canvas = view.canvas
       ELSE /\ view.currentStroke.set /\ view'.currentStroke.set
            /\ Len(view'.currentStroke.points) = Len(view.currentStroke.points) + 1
            /\ SubSeq(view'.currentStroke.points, 1, Len(view.currentStroke.points))
                 = view.currentStroke.points
            /\ capturedStrokes' = capturedStrokes]_vars


\* C21: a pointer-up, pointer-out or pointer-cancel reaching the view while
\* it is capturing appends the current stroke as the last element of the
\* StrokeSet and leaves the view idle with no current stroke; one reaching
\* it while idle changes nothing; every stroke of the StrokeSet has a
\* point, and the StrokeSet only grows at its end, in sealing order, until
\* it is cleared
C21_EndSealsStroke ==
  [][pointer'.events > pointer.events =>
       /\ \A i \in 1..Len(capturedStrokes') : Len(capturedStrokes'[i].points) > 0
       /\ pointer'.last.type = "end" /\ view.isDrawing =>
            /\ ~view'.isDrawing
            /\ ~view'.currentStroke.set
            /\ view.currentStroke.set =>
                 capturedStrokes' =
                   Append(capturedStrokes, [points |-> view.currentStroke.points])
            /\ ~view.currentStroke.set => capturedStrokes' = capturedStrokes
       /\ pointer'.last.type = "end" /\ ~view.isDrawing =>
            view' = view /\ capturedStrokes' = capturedStrokes
       /\ pointer'.last.type \in {"start", "move"} =>
            capturedStrokes' = capturedStrokes
       /\ pointer'.last.type = "clear" =>
            capturedStrokes' \in {capturedStrokes, <<>>}]_vars

\* a second, different stroke just sealed behind the first
C21_Witness ==
  /\ pointer.last.type = "end"
  /\ ~view.isDrawing /\ ~view.currentStroke.set
  /\ Len(capturedStrokes) = 2
  /\ capturedStrokes[1] # capturedStrokes[2]

\* whether the timestamps of a stroke start at 0 and never go down
StartsAtZeroAndNeverGoesBack(points) ==
  /\ Len(points) > 0 => points[1].t = 0
  /\ \A j \in 1..Len(points) : \A k \in j..Len(points) : points[j].t <= points[k].t

\* C22: in the current stroke and in every sealed stroke the first point
\* has t = 0 and t never decreases from one point to the next
C22_TimestampsMonotone ==
  /\ StartsAtZeroAndNeverGoesBack(view.currentStroke.points)
  /\ \A i \in 1..Len(capturedStrokes) :
       StartsAtZeroAndNeverGoesBack(capturedStrokes[i].points)

\* a stroke begun after the clock has advanced, whose second point is later
\* than its first
C22_Witness ==
  /\ view.strokeStartTime > 0
  /\ Len(view.currentStroke.points) = 2
  /\ view.currentStroke.points[2].t > 0
  /\ Len(capturedStrokes) = 1

\* C23: right after a clear the StrokeSet is empty, there is no current
\* stroke and the pressure-sample accumulator is empty, whatever the state
\* the clear found and whether or not the canvas has a drawing context
C23_ClearResetsAll ==
  pointer.last.type = "clear" =>
    /\ Len(capturedStrokes) = 0
    /\ ~view.currentStroke.set
    /\ Len(view.pressureValues) = 0


---------------------------------------------------------------------------
(* Properties of the snapshot (checked under SnapshotSpec).                *)

\* C24: the document a recognition serializes and sends is the
\* serialization of the strokes that were sealed when runOcr was invoked,
\* whatever pointer events and clear requests reached the view while the
\* call was suspended, before or after the request
C24_PayloadIsSnapshot ==
  /\ heap.call.pc \in {"sent", "done"} =>
       heap.call.payload = <<strokesToJIIX(heap.call.atCall, "en_US")>>
  /\ heap.call.pc = "suspended" =>
       StrokesAt(heap, heap.call.arg) = heap.call.atCall

\* a request sent after a stroke was sealed and the view cleared behind
\* the back of the suspended call
C24_Witness ==
  /\ heap.call.pc = "sent"
  /\ Len(heap.call.atCall) = 1
  /\ heap.capturedStrokes # 1
  /\ heap.currentStroke # 0
  /\ StrokesAt(heap, heap.capturedStrokes) # heap.call.atCall

---------------------------------------------------------------------------
(* Properties of the rasterizer (checked under RasterSpec).                *)

Black == Pixel(0, 0, 0, 255)

\* the average of the three channels of the pixel as it shows on white is
\* strictly above 180
AboveThreshold(px) == OverWhite(px).r + OverWhite(px).g + OverWhite(px).b > 3 * 180

\* the image is the canvas with a border of 20 * dpr pixels on every side,
\* every pixel pure white or pure black and opaque, white exactly where the
\* canvas pixel at that place is above the threshold and in the border
IsBinarized(img, row, dpr) ==
  /\ img.width = Len(row) + 2 * 20 * dpr
  /\ img.height = 1 + 2 * 20 * dpr
  /\ \A x \in 0..(img.width - 1), y \in 0..(img.height - 1) :
       img.at[x][y] \in {White, Black}
  /\ \A k \in 1..Len(row) :
       img.at[20 * dpr + k - 1][20 * dpr] = White <=> AboveThreshold(row[k])
  /\ \A x \in 0..(img.width - 1), y \in 0..(img.height - 1) :
       (y # 20 * dpr \/ x < 20 * dpr \/ x >= 20 * dpr + Len(row))
         => img.at[x][y] = White
  /\ (\A k \in 1..Len(row) : AboveThreshold(row[k]))
       => \A x \in 0..(img.width - 1), y \in 0..(img.height - 1) :
            img.at[x][y] = White

\* C25 as stated: the output of getPaddedImage is binarized in every call:
\* every pixel is pure white or pure black and opaque, white exactly when
\* the average of the three channels is strictly above 180.
C25_Binarized ==
  Len(raster.out) = 1 => IsBinarized(raster.out[1], raster.canvas, raster.dpr)

\* C25: when the temporary canvas gives a drawing context, the output of
\* getPaddedImage is binarized: every pixel is pure white or pure black and
\* opaque, white exactly when the average of the three channels of the
\* canvas pixel at the padding-offset place is strictly above 180 (exactly
\* 180 is black), and a canvas wholly above the threshold gives an all-white
\* image.  Without that context the canvas is returned as it is.
C25_BinarizedWithContext ==
  /\ (Len(raster.out) = 1 /\ raster.tCtx)
       => IsBinarized(raster.out[1], raster.canvas, raster.dpr)
  /\ (Len(raster.out) = 1 /\ ~raster.tCtx)
       => raster.out[1] = CanvasImage(raster.canvas)

\* a padded image of a canvas with a pixel averaging exactly 180 next to a
\* grey pixel above the threshold, at twice the pixel ratio
C25_Witness ==
  /\ Len(raster.out) = 1
  /\ raster.tCtx
  /\ raster.dpr = 2
  /\ raster.canvas = <<Pixel(255, 255, 30, 255), Pixel(181, 181, 181, 255)>>
  /\ raster.out[1].at[40][40] = Black
  /\ raster.out[1].at[41][40] = White

---------------------------------------------------------------------------
(* Properties of the surface under resizing (checked under SurfaceSpec).   *)

\* C26: resizing preserves drawn content: once every pending restore has
\* completed, every stroke drawn before or between resizes is still on the
\* canvas, and the backing store measures the logical size times the
\* device pixel ratio.
C26_ResizePreservesContent ==
  (surface.resizes > 0 /\ surface.pending = {}) =>
    /\ surface.drawn \subseteq surface.ink
    /\ (surface.rect.width # 0 /\ surface.rect.height # 0) =>
         /\ surface.width = surface.rect.width * surface.dpr
         /\ surface.height = surface.rect.height * surface.dpr

---------------------------------------------------------------------------
(* Properties of the OCR service (checked under OcrSpec).                  *)

\* no call is in progress
OcrQuiet == \A k \in OcrSlots : ocr.calls[k].pc = "idle"

\* the calls so far came one after the other, all initialize or recognize
\* calls for one handwriting mode and language, and at least one has settled
SequentialSameMode ==
  /\ OcrQuiet
  /\ ocr.completed
  /\ ~ocr.overlap
  /\ ~ocr.terminateCalled
  /\ Cardinality(ocr.modes) = 1

\* the workers createWorker gave
WorkersMade == {i \in 1..Len(ocr.workers) : ocr.workers[i].state # "failed"}

C28_OneLiveWorker ==
  /\ Cardinality({i \in 1..Len(ocr.workers) :
                    ocr.workers[i].state \in {"starting", "live"}}) <= 1
  /\ \A i \in 1..Len(ocr.workers) :
       /\ ocr.workers[i].terminations <= 1
       /\ ocr.workers[i].state = "terminated" => ocr.workers[i].terminations = 1

\* C29: a worker is created for the language asked for ('eng' when none is
\* given) and set to the single-text-block layout when handwriting is true
\* or not given, to the automatic layout when handwriting is false.
C29_LayoutMode ==
  \A i \in 1..Len(ocr.workers) :
    LET w == ocr.workers[i]
    IN /\ w.language = (IF w.by.language = "undefined" THEN "eng" ELSE w.by.language)
       /\ w.psm # "unset" =>
            w.psm = (IF w.by.handwriting = "false" THEN "AUTO" ELSE "SINGLE_BLOCK")

\* a worker made by a call without options and one made for print
C29_Witness ==
  \E i, j \in 1..Len(ocr.workers) :
    /\ ocr.workers[i].by = [handwriting |-> "undefined", language |-> "undefined"]
    /\ ocr.workers[i].psm = "SINGLE_BLOCK"
    /\ ocr.workers[i].language = "eng"
    /\ ocr.workers[j].by.handwriting = "false"
    /\ ocr.workers[j].psm = "AUTO"

---------------------------------------------------------------------------
(* Properties of the adapter's errors (checked under FailureSpec).         *)

\* C30: on a response that is not a 2xx, on the stroke path and on the
\* bitmap path alike, the error raised carries the status code of the
\* response and its body cut to a bounded length (2000 characters).
C30_StatusAndTruncatedBody ==
  (failure.called /\ failure.net.status \notin 200..299) =>
    /\ failure.error.raised
    /\ failure.error.status = failure.net.status
    /\ failure.net.text > 0 =>
         failure.error.body = (IF failure.net.text < 2000 THEN failure.net.text ELSE 2000)

---------------------------------------------------------------------------
(* Failures of a recognition (checked under FairSpec).                     *)

\* the last adapter the call asked threw
RecognitionFailed(call) ==
  \/ call.bitmapRes.k = "throw"
  \/ call.localRes.k = "throw"
  \/ call.strokeRes.k = "throw" /\ call.bitmapRes.k = "pending"
  \/ call.err # NoError

\* a notice carrying an error was shown during the call
FailureShown(call) ==
  \E i \in 1..Len(call.notices) : call.notices[i].e # NoError

\* a call that has returned resolved with a string, showed the failure if the
\* recognition failed, and the StrokeSet is the one it read at its start
ResolvedAndShown(c) ==
  calls[c].pc = "done" =>
    /\ calls[c].outcome \in {"copied", "notext", "failed"}
    /\ calls[c].outcome # "copied" => calls[c].ret = <<>>
    /\ RecognitionFailed(calls[c]) => FailureShown(calls[c])
    /\ Len(calls[c].strokes) > 0 => calls[c].strokes = capturedStrokes

\* C31: no recognition failure is fatal: whatever the adapters do (errors
\* thrown on the stroke path, the bitmap path or the local path included)
\* runOcr never rejects, it eventually resolves, the failure is shown to the
\* user, and the StrokeSet is left as it was.
C31_NoFailureIsFatal ==
  /\ [](\A c \in CallIds : ResolvedAndShown(c))
  /\ [][capturedStrokes' = capturedStrokes]_vars
  /\ \A c \in CallIds : (calls[c].pc # "idle") ~> (calls[c].pc = "done")

\* a call whose stroke request threw and whose bitmap retry threw has
\* returned the empty string with the failure shown
C31_Witness ==
  \E c \in CallIds :
    /\ calls[c].pc = "done"
    /\ calls[c].strokeRes.k = "throw"
    /\ calls[c].bitmapRes.k = "throw"
    /\ calls[c].outcome = "failed"
    /\ calls[c].ret = <<>>
    /\ FailureShown(calls[c])
    /\ capturedStrokes = calls[c].strokes
    /\ cursor = "crosshair"

---------------------------------------------------------------------------
(* Failures and overlapping calls of the OCR service (checked under        *)
(* OcrSpec).                                                               *)

\* the step in which the recognize call of slot k rejects because its
\* initialization failed
InitializationRejects(k) ==
  /\ ocr.calls[k].op = "recognize"
  /\ ocr.calls[k].pc = "log"
  /\ ocr'.calls[k].pc = "idle"

\* C33: when worker initialization fails, the recognize call that started it
\* rejects and a failure notice is shown; afterwards isInitializing is false
\* and no worker is held, so that a later call initializes again.
C33_FailedInitializationLeavesNoWorker ==
  [][\A k \in OcrSlots :
       InitializationRejects(k) =>
         /\ ocr'.failed
         /\ ocr'.noticed
         /\ ~ocr'.isInitializing
         /\ ocr'.worker = 0]_vars

\* C34: whenever recognize reaches worker.recognize, the worker is not null
\* and fully initialized: a call made while another call is initializing
\* does not go on with a null worker.
C34_RecognizeOnInitializedWorker ==
  \A k \in OcrSlots :
    /\ ocr.calls[k].pc = "logRecognize" => ocr.calls[k].w # 0
    /\ ocr.calls[k].pc = "recognize" =>
         /\ ocr.calls[k].w # 0
         /\ ocr.workers[ocr.calls[k].w].psm # "unset"

\* C35: terminate is never called on a worker while a recognize request on
\* that worker is in flight.
C35_NoTerminateUnderRecognize ==
  \A k \in OcrSlots :
    ocr.calls[k].pc = "recognize" => ocr.workers[ocr.calls[k].w].terminations = 0

\* the layout a worker has for a handwriting mode
LayoutFor(handwriting) == IF handwriting THEN "SINGLE_BLOCK" ELSE "AUTO"

\* C36: whenever the service holds a worker and no initialization is in
\* progress, the layout applied to the worker is the one of isHandwritingMode
\* and its language is currentLanguage, and a request in flight for a mode
\* and a language is on a worker set up for them; also after an
\* initialization in which setParameters failed.
C36_WorkerMatchesRecordedMode ==
  /\ (ocr.worker # 0 /\ ~ocr.isInitializing) =>
       /\ ocr.workers[ocr.worker].psm = LayoutFor(ocr.isHandwritingMode)
       /\ ocr.workers[ocr.worker].language = ocr.currentLanguage
  /\ \A k \in OcrSlots :
       ocr.calls[k].pc = "recognize" =>
         /\ ocr.workers[ocr.calls[k].w].psm = LayoutFor(ocr.calls[k].handwriting)
         /\ ocr.workers[ocr.calls[k].w].language = ocr.calls[k].language

---------------------------------------------------------------------------
(* Loss of points and consistency of the capture state (checked under      *)
(* CaptureSpec).                                                           *)

\* whether a list of points is the beginning of another
IsPrefix(points, other) ==
  /\ Len(points) <= Len(other)
  /\ SubSeq(other, 1, Len(points)) = points

\* C37: no captured stroke is lost: a pointer-up, pointer-out or
\* pointer-cancel seals the stroke in progress with all of its points, and a
\* pointer-down or pointer-move arriving while a stroke is in progress keeps
\* the points the stroke has so far; only a clear drops them.
C37_NoStrokeLost ==
  [][(pointer'.events > pointer.events /\ view.isDrawing /\ view.currentStroke.set) =>
       /\ pointer'.last.type = "end" =>
            capturedStrokes' =
              Append(capturedStrokes, [points |-> view.currentStroke.points])
       /\ pointer'.last.type \in {"start", "move"} =>
            \/ IsPrefix(view.currentStroke.points, view'.currentStroke.points)
            \/ \E n \in 1..Len(capturedStrokes') :
                 capturedStrokes'[n].points = view.currentStroke.points]_vars

\* C38: isDrawing is true exactly when there is a current stroke, and every
\* segment drawn on the canvas comes with a point recorded in the current
\* stroke, for every order of pointer events and clear requests.
C38_CaptureStateConsistent ==
  /\ [](view.isDrawing <=> view.currentStroke.set)
  /\ [][Len(view'.canvas) > Len(view.canvas) /\ pointer'.last.type = "move" =>
          /\ view'.currentStroke.set
          /\ Len(view'.currentStroke.points) = Len(view.currentStroke.points) + 1]_vars

---------------------------------------------------------------------------
(* Properties of the settings tab (checked under ConfigSpec).              *)

\* no onChange handler is awaiting saveSettings
SettingsSettled == config.keySaves = 0 /\ config.languageSaves = 0

\* C39: after any sequence of settings changes the service holds the current
\* settings: it is configured exactly when the application key of the
\* settings is not empty, with that key, and the language of its next stroke
\* request is the MyScript language of the settings.
C39_ServiceFollowsSettings ==
  SettingsSettled =>
    /\ isConfigured(options) <=> settings.myScriptApplicationKey # ""
    /\ isConfigured(options) =>
         /\ options.applicationKey = settings.myScriptApplicationKey
         /\ requestLanguage(options) = settings.myScriptLanguage

---------------------------------------------------------------------------
(* Properties of overlapping recognitions (checked under OverlapSpec).     *)

\* C40: once every runOcr call in flight has completed, the cursor of the
\* canvas is the one it had before the first of them began, also when two
\* calls overlap.
C40_CursorRestored ==
  (\A c \in Callers : overlapping[c].pc \in {"idle", "done"}) => cursor = "crosshair"

===========================================================================
